---- MODULE Spec2Model ----
(***************************************************************************)
(* Leonardo API integration layer: the request client (leonardo.ts), the   *)
(* job lifecycle coordinator (handleSubmit / pollForResult), the parameter *)
(* builder (the synchronous prefix of handleSubmit), the asset upload      *)
(* protocol (handleImageUpload) and the capability table (MODEL_CONFIG).   *)
(*                                                                         *)
(* Conventions.  JavaScript null / undefined of a string-valued field is   *)
(* the value Null; an optional object key is a key that is, or is not, in  *)
(* the DOMAIN of the function that models the object.  Numbers with a      *)
(* fractional part are scaled: contrast by 10, weight by 100.  Response    *)
(* bodies are JSON objects of the declared interfaces, any optional or     *)
(* required field of which may be missing.                                 *)
(***************************************************************************)
EXTENDS Integers, Sequences, FiniteSets, TLC

VARIABLES
    apiKey,          \* useState apiKey
    modelName,       \* useState modelName
    selectedConfig,  \* useState selectedConfig (a capability descriptor)
    prompt,          \* useState prompt
    width, height,   \* useState width / height
    style,           \* useState style
    contrast,        \* useState contrast (x10)
    alchemy,         \* useState alchemy
    photoReal,       \* useState photoReal
    guidanceImages,  \* useState guidanceImages (a sequence of GuidanceImage)
    loading,         \* useState loading
    status,          \* useState status
    error,           \* useState error (Null or a message)
    resultImageUrl,  \* useState resultImageUrl (Null or a url)
    debugRequest,    \* useState debugRequest (NoBody for null, or the body)
    debugResponse,   \* useState debugResponse (a label, Null for null)
    sub,             \* one record per handleSubmit invocation slot
    net,             \* the requests in flight (fetch called, not resolved)
    up,              \* one record per handleImageUpload invocation
    now              \* the value Date.now() returned last

appVars == <<apiKey, modelName, selectedConfig, prompt, width, height, style,
             contrast, alchemy, photoReal, guidanceImages, up, now>>
outVars == <<loading, status, error, resultImageUrl, debugRequest, debugResponse>>
vars == <<appVars, outVars, sub, net>>

Null == "null"
NoBody == [k \in {} |-> Null]

(***************************************************************************)
(* Bounds of the model.                                                    *)
(***************************************************************************)
MaxSubmissions == 2
MaxImages == 2

(***************************************************************************)
(* Program constants.                                                      *)
(***************************************************************************)
maxAttempts == 30
PollDelayMs == 10000

GUIDANCE_STRENGTH_TYPES ==
    [t \in {"Style Reference", "Character Reference", "Content Reference"} |->
        IF t = "Style Reference" THEN <<"Low", "Mid", "High", "Ultra", "Max">>
        ELSE <<"Low", "Mid", "High">>]

IMAGE_GEN_STYLES ==
    <<"None", "Leonardo", "Anime", "Bokeh", "Cinematic", "Creative",
      "Dynamic", "Environment", "Fashion", "Film", "Food", "General", "Hdr",
      "Illustration", "Long Exposure", "Macro", "Minimalistic", "Monochrome",
      "Moody", "Neutral", "Photography", "Portrait", "Raytraced", "Render 3d",
      "Retro", "Sketch Bw", "Sketch Color", "Stock Photo", "Vibrant">>

ASPECT_RATIO_KEYS == <<"1:1", "16:9", "9:16", "4:3", "3:4">>

ASPECT_RATIO_DIMENSIONS ==
    [r \in {"1:1", "16:9", "9:16", "4:3", "3:4"} |->
        CASE r = "1:1"  -> [width |-> 1024, height |-> 1024]
          [] r = "16:9" -> [width |-> 1456, height |-> 720]
          [] r = "9:16" -> [width |-> 720,  height |-> 1456]
          [] r = "4:3"  -> [width |-> 1184, height |-> 880]
          [] r = "3:4"  -> [width |-> 880,  height |-> 1184]]

CONTRAST_VALUES == <<10, 13, 18, 25, 30, 35, 45>>

(***************************************************************************)
(* The capability table.  A descriptor keeps what the modelled code reads: *)
(* id, nodeType, supports.{alchemy, contrast, aspectRatios, guidance,      *)
(* contextGuidance} and defaults.{style, contrast, photoReal}.  An absent  *)
(* guidance table or contextGuidance list has its has-flag FALSE (an empty *)
(* one is truthy in the code, an absent one is not); an absent default is  *)
(* the falsy value of its type ("", 0, FALSE).  The guidance table is kept *)
(* in declaration order, the order Object.keys returns.                    *)
(***************************************************************************)
GuidanceEntry(t, p, m, w) ==
    [type |-> t, preprocessorId |-> p, maxInputs |-> m, usesWeight |-> w]

Descriptor(id, nodeType, alch, contr, hasG, g, hasC, c, dStyle, dContrast) ==
    [id |-> id, nodeType |-> nodeType,
     supports |-> [alchemy |-> alch, contrast |-> contr,
                   hasAspectRatios |-> nodeType = "image-generation",
                   aspectRatios |-> IF nodeType = "image-generation"
                                    THEN ASPECT_RATIO_KEYS ELSE <<>>,
                   hasGuidance |-> hasG, guidance |-> g,
                   hasContextGuidance |-> hasC, contextGuidance |-> c],
     defaults |-> [style |-> dStyle, contrast |-> dContrast, photoReal |-> FALSE]]

Guidance3(s, ch, co) ==
    << GuidanceEntry("Style Reference", s, 4, FALSE),
       GuidanceEntry("Character Reference", ch, 1, FALSE),
       GuidanceEntry("Content Reference", co, 1, FALSE) >>

Guidance2(s, co) ==
    << GuidanceEntry("Style Reference", s, 4, FALSE),
       GuidanceEntry("Content Reference", co, 1, FALSE) >>

KontextTypes == <<"SUBJECT_AND_STYLE", "STYLE_ONLY", "SUBJECT_ONLY", "NEGATIVE">>

ContextModelWithGuidance(id, dStyle, dContrast) ==
    Descriptor(id, "image-generation", FALSE, TRUE, TRUE, Guidance2(299, 233), TRUE,
               KontextTypes, dStyle, dContrast)

ContextModel(id, dStyle, dContrast) ==
    Descriptor(id, "image-generation", FALSE, TRUE, FALSE, <<>>, TRUE, KontextTypes,
               dStyle, dContrast)

GuidanceModel(id, alch, contr, g, dStyle, dContrast) ==
    Descriptor(id, "image-generation", alch, contr, TRUE, g, FALSE, <<>>,
               dStyle, dContrast)

VideoModel ==
    Descriptor(Null, "text-to-video", FALSE, FALSE, FALSE, <<>>, FALSE, <<>>, "", 0)

MODEL_NAMES ==
    <<"FLUX.1 Kontext", "FLUX.1 Kontext Pro", "Flux Dev (Precision)",
      "Flux Schnell (Speed)", "Leonardo Phoenix 1.0", "Leonardo Phoenix 0.9",
      "Leonardo Lightning XL", "Leonardo Anime XL", "Leonardo Diffusion XL",
      "Leonardo Kino XL", "Leonardo Vision XL", "SDXL 1.0", "AlbedoBase XL",
      "Lucid Realism", "Lucid Origin", "MOTION2", "VEO3">>

MODEL_CONFIG ==
    [n \in {MODEL_NAMES[i] : i \in DOMAIN MODEL_NAMES} |->
      CASE n = "FLUX.1 Kontext" ->
             ContextModel("28aeddf8-bd19-4803-80fc-79602d1a9989", "", 0)
        [] n = "FLUX.1 Kontext Pro" ->
             ContextModel("28aeddf8-bd19-4803-80fc-79602d1a9989", "Dynamic", 10)
        [] n = "Flux Dev (Precision)" ->
             GuidanceModel("b2614463-296c-462a-9586-aafdb8f00e36", FALSE, TRUE,
                           Guidance2(299, 233), "Dynamic", 10)
        [] n = "Flux Schnell (Speed)" ->
             GuidanceModel("1dd50843-d653-4516-a8e3-f0238ee453ff", FALSE, TRUE,
                           Guidance2(298, 232), "Dynamic", 10)
        [] n = "Leonardo Phoenix 1.0" ->
             GuidanceModel("de7d3faf-762f-48e0-b3b7-9d0ac3a3fcf3", TRUE, TRUE,
                           Guidance3(166, 397, 364), "Dynamic", 25)
        [] n = "Leonardo Phoenix 0.9" ->
             GuidanceModel("6b645e3a-d64f-4341-a6d8-7a3690fbf042", TRUE, TRUE,
                           Guidance3(166, 397, 364), "Dynamic", 25)
        [] n = "Leonardo Lightning XL" ->
             GuidanceModel("b24e16ff-06e3-43eb-8d33-4416c2d75876", FALSE, FALSE,
                           Guidance3(67, 133, 100), "Dynamic", 0)
        [] n = "Leonardo Anime XL" ->
             GuidanceModel("e71a1c2f-4f80-4800-934f-2c68979d8cc8", FALSE, FALSE,
                           Guidance3(67, 133, 100), "Anime", 0)
        [] n = "Leonardo Diffusion XL" ->
             GuidanceModel("1e60896f-3c26-4296-8ecc-53e2afecc132", TRUE, FALSE,
                           Guidance3(67, 133, 100), "Dynamic", 0)
        [] n = "Leonardo Kino XL" ->
             GuidanceModel("aa77f04e-3eec-4034-9c07-d0f619684628", FALSE, FALSE,
                           Guidance3(67, 133, 100), "Cinematic", 0)
        [] n = "Leonardo Vision XL" ->
             GuidanceModel("5c232a9e-9061-4777-980a-ddc8e65647c6", TRUE, FALSE,
                           Guidance3(67, 133, 100), "Dynamic", 0)
        [] n = "SDXL 1.0" ->
             GuidanceModel("16e7060a-803e-4df3-97ee-edcfa5dc9cc8", FALSE, FALSE,
                           Guidance3(67, 133, 100), "Dynamic", 0)
        [] n = "AlbedoBase XL" ->
             GuidanceModel("2067ae52-33fd-4a82-bb92-c2c55e7d2786", FALSE, FALSE,
                           Guidance3(67, 133, 100), "Dynamic", 0)
        [] n = "Lucid Realism" ->
             GuidanceModel("05ce0082-2d80-4a2d-8653-4d1c85e2418e", FALSE, FALSE,
                           Guidance2(431, 430), "Photography", 0)
        [] n = "Lucid Origin" ->
             GuidanceModel("7b592283-e8a7-4c5a-9ba6-d18c31f258b9", FALSE, FALSE,
                           << GuidanceEntry("Style Reference", 431, 4, FALSE) >>,
                           "Vibrant", 0)
        [] OTHER -> VideoModel]

getModelsForNodeType(nodeType) ==
    SelectSeq(MODEL_NAMES, LAMBDA n : MODEL_CONFIG[n].nodeType = nodeType)

imageModels == getModelsForNodeType("image-generation")

getModelConfig(name) == MODEL_CONFIG[name]

(***************************************************************************)
(* JavaScript helpers.                                                     *)
(***************************************************************************)
\* Truthiness of a string-valued expression: undefined, null and "" are falsy.
Truthy(x) == x # Null /\ x # ""

\* obj?.key for a string-valued key: Null when the key is missing.
Get(obj, key) == IF key \in DOMAIN obj THEN obj[key] ELSE Null

(***************************************************************************)
(* What fetch can do with one JSON request (the environment's choice):     *)
(* reject (the request never completed), or resolve with a response of     *)
(* some HTTP status, whose body is `text` and, when it parses, is the JSON *)
(* object `json`.                                                          *)
(***************************************************************************)
Rejected(message) ==
    [kind |-> "reject", status |-> 0, text |-> message, parses |-> FALSE, json |-> NoBody]

Responded(st, text, parses, json) ==
    [kind |-> "response", status |-> st, text |-> text, parses |-> parses, json |-> json]

\* A rejected fetch carries the platform's TypeError, whose message is not empty.
TransportFailures == { Rejected("Failed to fetch") }

HttpFailures == { Responded(st, t, FALSE, NoBody) : st \in {404, 500}, t \in {"", "quota exceeded"} }

UnparsableBodies == { Responded(200, "<html>", FALSE, NoBody) }

FetchFailures == TransportFailures \cup HttpFailures \cup UnparsableBodies

\* InitialGenerationResponse: { sdGenerationJob?: { generationId } }
InitialResponses ==
    { NoBody,
      [sdGenerationJob |-> NoBody],
      [sdGenerationJob |-> [generationId |-> ""]],
      [sdGenerationJob |-> [generationId |-> "gen-1"]] }

\* GenerationResult: { generations_by_pk?: { id, status, generated_images? } }
Image(url) == [id |-> "i1", url |-> url]
ImageNoUrl == [id |-> "i2"]

Generation(st) == [generations_by_pk |-> [id |-> "gen-1", status |-> st]]

Complete(images) ==
    [generations_by_pk |->
        [id |-> "gen-1", status |-> "COMPLETE", generated_images |-> images]]

GeneratedImageLists ==
    { <<>>,
      << ImageNoUrl >>,
      << Image("") >>,
      << Image("http://x/y.png") >>,
      << Image("http://x/y.png"), Image("http://x/z.png") >>,
      << Image("http://x/z.png"), Image("http://x/y.png") >>,
      << ImageNoUrl, Image("http://x/y.png") >> }

StatusResponses ==
    { NoBody, Generation("PENDING"), Generation("QUEUED"), Generation("FAILED"),
      Generation("COMPLETE") }
    \cup { Complete(l) : l \in GeneratedImageLists }

(***************************************************************************)
(* LeonardoAPI (leonardo.ts).  A call either returns a value or throws an  *)
(* Error with a message.                                                   *)
(***************************************************************************)
Return(v) == [ok |-> TRUE, message |-> "", value |-> v]
Throw(m)  == [ok |-> FALSE, message |-> m, value |-> NoBody]

NewLeonardoAPIAcceptsEmpty(key) == Return(NoBody)

\* new LeonardoAPI(apiKey)
NewLeonardoAPI(key) ==
    IF ~Truthy(key) THEN Throw("Leonardo API key is required.") ELSE Return(NoBody)

HttpErrorPrefix == "API request failed with status "
JsonSyntaxError == "Unexpected token < in JSON at position 0"

\* response.ok
ResponseOk(o) == o.status >= 200 /\ o.status <= 299

requestSwallowsErrors(o) ==
    IF o.kind = "response" /\ ResponseOk(o) /\ o.parses THEN Return(o.json)
    ELSE Return(NoBody)

requestGenericError(o) ==
    IF o.kind = "response" /\ ResponseOk(o) /\ o.parses THEN Return(o.json)
    ELSE Throw("")

requestIgnoresStatus(o) ==
    IF o.kind = "reject" THEN Throw(o.text)
    ELSE IF ~o.parses THEN Throw(JsonSyntaxError)
    ELSE Return(o.json)

\* LeonardoAPI.request: the result of the call, given what fetch did.
request(o) ==
    IF o.kind = "reject" THEN Throw(o.text)
    ELSE IF ~ResponseOk(o)
         THEN Throw(HttpErrorPrefix \o ToString(o.status) \o ": " \o o.text)
    ELSE IF ~o.parses THEN Throw(JsonSyntaxError)
    ELSE Return(o.json)

\* A request in flight: fetch was called and has not resolved yet.
Request(s, method, path, body, n) ==
    [sub |-> s, method |-> method, path |-> path, body |-> body, n |-> n]

InFlight(s, method) == { r \in net : r.sub = s /\ r.method = method }

(***************************************************************************)
(* The parameter builder: handleSubmit from `const params` up to the call  *)
(* of api.generateImage.  It reads the component state of the render that  *)
(* handleSubmit closes over.                                               *)
(***************************************************************************)
LowerCase == "abcdefghijklmnopqrstuvwxyz"
UpperCase == "ABCDEFGHIJKLMNOPQRSTUVWXYZ"

\* One character of style.toUpperCase().replace(/\s/g, '_')
WireChar(c) ==
    IF c = " " THEN "_"
    ELSE IF \E i \in 1..Len(LowerCase) : SubSeq(LowerCase, i, i) = c
         THEN LET i == CHOOSE j \in 1..Len(LowerCase) : SubSeq(LowerCase, j, j) = c
              IN  SubSeq(UpperCase, i, i)
         ELSE c

RECURSIVE WireStyle(_)
WireStyle(str) ==
    IF Len(str) = 0 THEN ""
    ELSE WireChar(SubSeq(str, 1, 1)) \o WireStyle(SubSeq(str, 2, Len(str)))

BaseParams ==
    ("prompt" :> prompt) @@ ("modelId" :> selectedConfig.id) @@ ("width" :> width)
    @@ ("height" :> height) @@ ("num_images" :> 1)

AlchemyParamsPhotoRealOutside ==
    IF selectedConfig.supports.alchemy
    THEN ("alchemy" :> alchemy) @@ ("photoReal" :> photoReal)
         @@ (IF alchemy /\ Truthy(style) /\ style # "None"
             THEN "presetStyle" :> WireStyle(style) ELSE NoBody)
    ELSE NoBody

AlchemyParamsStyleOutside ==
    (IF selectedConfig.supports.alchemy
     THEN ("alchemy" :> alchemy)
          @@ (IF alchemy THEN "photoReal" :> photoReal ELSE NoBody)
     ELSE NoBody)
    @@ (IF Truthy(style) /\ style # "None"
        THEN "presetStyle" :> WireStyle(style) ELSE NoBody)

AlchemyParamsOnlyWhenOn ==
    IF selectedConfig.supports.alchemy /\ alchemy
    THEN ("alchemy" :> alchemy) @@ ("photoReal" :> photoReal)
         @@ (IF Truthy(style) /\ style # "None"
             THEN "presetStyle" :> WireStyle(style) ELSE NoBody)
    ELSE NoBody

AlchemyParams ==
    IF selectedConfig.supports.alchemy
    THEN ("alchemy" :> alchemy)
         @@ (IF alchemy
             THEN ("photoReal" :> photoReal)
                  @@ (IF Truthy(style) /\ style # "None"
                      THEN "presetStyle" :> WireStyle(style) ELSE NoBody)
             ELSE NoBody)
    ELSE NoBody

ContrastParamsAlways == "contrast" :> contrast

ContrastParamsInsideAlchemy ==
    IF selectedConfig.supports.alchemy /\ selectedConfig.supports.contrast
    THEN "contrast" :> contrast ELSE NoBody

ContrastParams ==
    IF selectedConfig.supports.contrast THEN "contrast" :> contrast ELSE NoBody

IsReadyWhateverStatus(img) == TRUE

\* img.status === 'ready' && img.id
IsReady(img) == img.status = "ready" /\ Truthy(img.id)

ReadyImagesCapped ==
    LET declared(type) ==
            SelectSeq(selectedConfig.supports.guidance, LAMBDA e : e.type = type)
        earlier(i) ==
            { j \in 1..(i - 1) :
                /\ IsReady(guidanceImages[j])
                /\ guidanceImages[j].guidanceType = guidanceImages[i].guidanceType }
        kept(i) ==
            /\ IsReady(guidanceImages[i])
            /\ Len(declared(guidanceImages[i].guidanceType)) > 0 =>
                  Cardinality(earlier(i)) < declared(guidanceImages[i].guidanceType)[1].maxInputs
        indexes == SelectSeq([i \in DOMAIN guidanceImages |-> i], kept)
    IN  [k \in DOMAIN indexes |-> guidanceImages[indexes[k]]]

ReadyImages == SelectSeq(guidanceImages, IsReady)

ContextImage(img) == [init_image_id |-> img.id, context |-> img.contextType]

\* selectedConfig.supports.guidance?.[img.guidanceType]: the entries of that name
GuidanceConfig(type) ==
    SelectSeq(selectedConfig.supports.guidance, LAMBDA e : e.type = type)

BaseControlNet(img, guidanceConfig) ==
    [initImageId |-> img.id, initImageType |-> "UPLOADED",
     preprocessorId |-> guidanceConfig.preprocessorId]

ControlNetBothShapes(img) ==
    LET guidanceConfig == GuidanceConfig(img.guidanceType)[1]
    IN  BaseControlNet(img, guidanceConfig)
        @@ ("weight" :> img.weight) @@ ("strengthType" :> img.strengthType)

\* The callback of readyImages.map, for an image whose guidance type is declared.
ControlNet(img) ==
    LET guidanceConfig == GuidanceConfig(img.guidanceType)[1]
    IN  BaseControlNet(img, guidanceConfig)
        @@ (IF guidanceConfig.usesWeight THEN "weight" :> img.weight
            ELSE "strengthType" :> img.strengthType)

\* The ready images whose guidance type the descriptor does not declare.
InvalidImages ==
    SelectSeq(ReadyImages, LAMBDA img : Len(GuidanceConfig(img.guidanceType)) = 0)

InvalidGuidanceMessage(type) ==
    "Invalid guidance type \"" \o type \o "\" for this model."

GuidanceBranchFirst ==
    IF selectedConfig.supports.hasGuidance /\ Len(guidanceImages) > 0 THEN "guidance"
    ELSE IF selectedConfig.supports.hasContextGuidance /\ Len(guidanceImages) > 0
         THEN "context"
    ELSE "none"

\* Which list the if / else-if of the builder goes for.
GuidanceBranch ==
    IF selectedConfig.supports.hasContextGuidance /\ Len(guidanceImages) > 0
    THEN "context"
    ELSE IF selectedConfig.supports.hasGuidance /\ Len(guidanceImages) > 0
         THEN "guidance"
    ELSE "none"

\* The whole builder: the request body, or the error it throws.
BuildParams ==
    LET ready == ReadyImages
        branch == GuidanceBranch
    IN  IF branch = "guidance" /\ Len(InvalidImages) > 0
        THEN Throw(InvalidGuidanceMessage(InvalidImages[1].guidanceType))
        ELSE Return(
               BaseParams @@ AlchemyParams @@ ContrastParams
               @@ (IF branch = "context" /\ Len(ready) > 0
                   THEN "contextImages" :> [i \in DOMAIN ready |-> ContextImage(ready[i])]
                   ELSE NoBody)
               @@ (IF branch = "guidance" /\ Len(ready) > 0
                   THEN "controlnets" :> [i \in DOMAIN ready |-> ControlNet(ready[i])]
                   ELSE NoBody))

(***************************************************************************)
(* The job lifecycle coordinator: handleSubmit and pollForResult.  A slot  *)
(* of `sub` is one invocation of handleSubmit: pc is the await it is       *)
(* suspended at, generationId and attempts are its locals.  The other      *)
(* fields are history: run counts the invocations of the slot, posts and   *)
(* polls the requests it issued, answers the status requests that fetch    *)
(* settled, delays the timers that elapsed, pendings the status answers    *)
(* that were PENDING, lastFetch / lastMethod what fetch did last, and      *)
(* outcome what the invocation reported (setResultImageUrl or setError).   *)
(***************************************************************************)
\* The form admits one invocation at a time (SubmitEnabled); the slot is taken
\* again by the next submission.
Subs == {"s1"}

NoFetch == [kind |-> "none", status |-> 0, text |-> "", parses |-> FALSE, json |-> NoBody]
NoOutcome == [kind |-> "none", value |-> Null]

IdleSub ==
    [pc |-> "idle", run |-> 0, generationId |-> Null, attempts |-> 0,
     posts |-> 0, polls |-> 0, answers |-> 0, delays |-> 0, pendings |-> 0,
     lastFetch |-> NoFetch, lastMethod |-> Null, outcome |-> NoOutcome,
     images |-> <<>>]

\* An invocation of handleImageUpload: pc is the await it is suspended at,
\* file / tempId / id / fields / url are its constants of those names, and
\* the rest is history: the ticket requests and pushes it issued, the statuses
\* its image was given, in order, what fetch did with the ticket request and
\* with the push, the HTTP status the storage service answered the push with
\* (0 while it has not) and the message of the error it caught.
IdleUpload ==
    [pc |-> "idle", file |-> Null, tempId |-> Null, id |-> Null, url |-> Null,
     fields |-> <<>>, tickets |-> 0, pushes |-> 0, trail |-> <<>>,
     ticketFetch |-> NoFetch, pushFetch |-> NoFetch, served |-> 0, message |-> Null]

NoDebugResponse == [label |-> Null, json |-> NoBody]

CatchWithoutFinally(s, r, message) ==
    LET errorString == IF Truthy(message) THEN message ELSE "An unknown error occurred."
    IN  /\ error' = errorString
        /\ debugResponse' = [label |-> "Error", json |-> NoBody]
        /\ status' = "Error occurred."
        /\ loading' = loading
        /\ sub' = [sub EXCEPT ![s] =
                     [r EXCEPT !.pc = "done",
                               !.outcome = [kind |-> "error", value |-> errorString]]]

\* catch (err) { ... } finally { setLoading(false) }, ending invocation s in state r
Catch(s, r, message) ==
    LET errorString == IF Truthy(message) THEN message ELSE "An unknown error occurred."
    IN  /\ error' = errorString
        /\ debugResponse' = [label |-> "Error", json |-> NoBody]
        /\ status' = "Error occurred."
        /\ loading' = FALSE
        /\ sub' = [sub EXCEPT ![s] =
                     [r EXCEPT !.pc = "done",
                               !.outcome = [kind |-> "error", value |-> errorString]]]

\* The button of the form: disabled={loading || !apiKey}
SubmitEnabled == ~loading /\ Truthy(apiKey)

handleSubmitKeepsResult(s) ==
    LET fresh == [IdleSub EXCEPT !.run = sub[s].run + 1, !.images = guidanceImages]
        api == NewLeonardoAPI(apiKey)
        built == BuildParams
    IN  IF ~Truthy(apiKey)
        THEN /\ error' = "API Key is required."
             /\ sub' = [sub EXCEPT ![s] =
                          [fresh EXCEPT !.pc = "done",
                                        !.outcome = [kind |-> "error",
                                                     value |-> "API Key is required."]]]
             /\ UNCHANGED <<loading, status, resultImageUrl, debugRequest,
                            debugResponse, net>>
        ELSE IF selectedConfig.nodeType = Null
        THEN /\ error' = "Could not find configuration for the selected model."
             /\ sub' = [sub EXCEPT ![s] =
                          [fresh EXCEPT !.pc = "done",
                                        !.outcome = [kind |-> "error",
                                                     value |-> "Could not find configuration for the selected model."]]]
             /\ UNCHANGED <<loading, status, resultImageUrl, debugRequest,
                            debugResponse, net>>
        ELSE IF ~api.ok
        THEN /\ Catch(s, fresh, api.message)
             /\ resultImageUrl' = resultImageUrl
             /\ debugRequest' = NoBody
             /\ UNCHANGED net
        ELSE IF ~built.ok
        THEN /\ Catch(s, fresh, built.message)
             /\ resultImageUrl' = resultImageUrl
             /\ debugRequest' = NoBody
             /\ UNCHANGED net
        ELSE /\ loading' = TRUE
             /\ error' = Null
             /\ resultImageUrl' = resultImageUrl
             /\ debugRequest' = built.value
             /\ debugResponse' = NoDebugResponse
             /\ status' = "Sending generation request..."
             /\ net' = net \cup {Request(s, "POST", "/generations", built.value, 1)}
             /\ sub' = [sub EXCEPT ![s] = [fresh EXCEPT !.pc = "awaitPost", !.posts = 1]]

\* handleSubmit, up to its first await
handleSubmit(s) ==
    LET fresh == [IdleSub EXCEPT !.run = sub[s].run + 1, !.images = guidanceImages]
        api == NewLeonardoAPI(apiKey)
        built == BuildParams
    IN  IF ~Truthy(apiKey)
        THEN /\ error' = "API Key is required."
             /\ sub' = [sub EXCEPT ![s] =
                          [fresh EXCEPT !.pc = "done",
                                        !.outcome = [kind |-> "error",
                                                     value |-> "API Key is required."]]]
             /\ UNCHANGED <<loading, status, resultImageUrl, debugRequest,
                            debugResponse, net>>
        ELSE IF selectedConfig.nodeType = Null
        THEN /\ error' = "Could not find configuration for the selected model."
             /\ sub' = [sub EXCEPT ![s] =
                          [fresh EXCEPT !.pc = "done",
                                        !.outcome = [kind |-> "error",
                                                     value |-> "Could not find configuration for the selected model."]]]
             /\ UNCHANGED <<loading, status, resultImageUrl, debugRequest,
                            debugResponse, net>>
        ELSE IF ~api.ok
        THEN /\ Catch(s, fresh, api.message)
             /\ resultImageUrl' = Null
             /\ debugRequest' = NoBody
             /\ UNCHANGED net
        ELSE IF ~built.ok
        THEN /\ Catch(s, fresh, built.message)
             /\ resultImageUrl' = Null
             /\ debugRequest' = NoBody
             /\ UNCHANGED net
        ELSE /\ loading' = TRUE
             /\ error' = Null
             /\ resultImageUrl' = Null
             /\ debugRequest' = built.value
             /\ debugResponse' = NoDebugResponse
             /\ status' = "Sending generation request..."
             /\ net' = net \cup {Request(s, "POST", "/generations", built.value, 1)}
             /\ sub' = [sub EXCEPT ![s] = [fresh EXCEPT !.pc = "awaitPost", !.posts = 1]]

\* initialResponse.sdGenerationJob?.generationId
GenerationId(json) ==
    IF "sdGenerationJob" \in DOMAIN json
    THEN Get(json.sdGenerationJob, "generationId") ELSE Null

\* if (!generationId) throw
HasGenerationIdUnchecked(id) == TRUE

HasGenerationId(id) == Truthy(id)

\* generation?.status
GenerationStatus(json) ==
    IF "generations_by_pk" \in DOMAIN json
    THEN Get(json.generations_by_pk, "status") ELSE Null

PollVerdictIgnoresFailed(json) ==
    IF GenerationStatus(json) = "COMPLETE" THEN "return" ELSE "continue"

PollVerdictKnownStatusOnly(json) ==
    IF GenerationStatus(json) = "COMPLETE" THEN "return"
    ELSE IF GenerationStatus(json) = "PENDING" THEN "continue"
    ELSE "throw"

\* What one iteration of the polling loop does with a status response.
PollVerdict(json) ==
    IF GenerationStatus(json) = "COMPLETE" THEN "return"
    ELSE IF GenerationStatus(json) = "FAILED" THEN "throw"
    ELSE "continue"

LastImageUrl(json) ==
    IF "generations_by_pk" \in DOMAIN json
       /\ "generated_images" \in DOMAIN json.generations_by_pk
       /\ Len(json.generations_by_pk.generated_images) > 0
    THEN Get(json.generations_by_pk.generated_images[
                 Len(json.generations_by_pk.generated_images)], "url")
    ELSE Null

\* finalResult.generations_by_pk?.generated_images?.[0]?.url
FirstImageUrl(json) ==
    IF "generations_by_pk" \in DOMAIN json
       /\ "generated_images" \in DOMAIN json.generations_by_pk
       /\ Len(json.generations_by_pk.generated_images) > 0
    THEN Get(json.generations_by_pk.generated_images[1], "url")
    ELSE Null

\* if (imageUrl)
HasImageUrlUnchecked(url) == url # Null

HasImageUrl(url) == Truthy(url)

\* while (attempts < maxAttempts)
WithinBudgetOffByOne(attempts) == attempts <= maxAttempts

WithinBudget(attempts) == attempts < maxAttempts

\* The submission POST resolves: the rest of handleSubmit up to pollForResult.
PostResolve(s, o) ==
    /\ sub[s].pc = "awaitPost"
    /\ \E req \in InFlight(s, "POST") :
         LET r == [sub[s] EXCEPT !.lastFetch = o, !.lastMethod = "POST"]
             initialResponse == request(o)
             generationId == GenerationId(initialResponse.value)
         IN  /\ net' = net \ {req}
             /\ IF ~initialResponse.ok
                THEN Catch(s, r, initialResponse.message)
                ELSE IF ~HasGenerationId(generationId)
                THEN Catch(s, r, "Failed to get generation ID from the initial response.")
                ELSE /\ debugResponse' = [label |-> "Initial Response",
                                          json |-> initialResponse.value]
                     /\ sub' = [sub EXCEPT ![s] =
                                  [r EXCEPT !.pc = "polling",
                                            !.generationId = generationId,
                                            !.attempts = 0]]
                     /\ UNCHANGED <<loading, status, error>>
    /\ UNCHANGED <<appVars, resultImageUrl, debugRequest>>

PollIssueNoAwait(s) ==
    /\ sub[s].pc = "polling"
    /\ WithinBudget(sub[s].attempts)
    /\ status' = "Polling for result... (Attempt " \o ToString(sub[s].attempts + 1) \o ")"
    /\ net' = net \cup {Request(s, "GET", "/generations/" \o sub[s].generationId,
                                NoBody, sub[s].polls + 1)}
    /\ sub' = [sub EXCEPT ![s].attempts = @ + 1, ![s].polls = @ + 1]
    /\ UNCHANGED <<appVars, loading, error, resultImageUrl, debugRequest, debugResponse>>

\* The head of the polling loop: the next status request, or the timeout.
PollIssue(s) ==
    /\ sub[s].pc = "polling"
    /\ IF WithinBudget(sub[s].attempts)
       THEN /\ status' = "Polling for result... (Attempt "
                             \o ToString(sub[s].attempts + 1) \o ")"
            /\ net' = net \cup {Request(s, "GET", "/generations/" \o sub[s].generationId,
                                        NoBody, sub[s].polls + 1)}
            /\ sub' = [sub EXCEPT ![s].pc = "awaitPoll", ![s].polls = @ + 1]
            /\ UNCHANGED <<loading, error, debugResponse>>
       ELSE /\ Catch(s, sub[s], "Polling timed out.")
            /\ UNCHANGED net
    /\ UNCHANGED <<appVars, resultImageUrl, debugRequest>>

\* A status request resolves: the rest of the iteration, and of handleSubmit
\* when pollForResult returns or throws.
PollResolve(s, o) ==
    /\ sub[s].pc = "awaitPoll"
    /\ \E req \in InFlight(s, "GET") :
         LET response == request(o)
             isPending == response.ok /\ GenerationStatus(response.value) = "PENDING"
             r == [sub[s] EXCEPT !.lastFetch = o, !.lastMethod = "GET",
                                 !.answers = @ + 1,
                                 !.pendings = IF isPending THEN @ + 1 ELSE @]
             verdict == PollVerdict(response.value)
             imageUrl == FirstImageUrl(response.value)
         IN  /\ net' = net \ {req}
             /\ IF ~response.ok
                THEN Catch(s, r, response.message) /\ UNCHANGED resultImageUrl
                ELSE IF verdict = "throw"
                THEN Catch(s, r, "Generation failed.") /\ UNCHANGED resultImageUrl
                ELSE IF verdict = "return" /\ ~HasImageUrl(imageUrl)
                THEN /\ Catch(s, r, "Generation completed, but no image URL was found.")
                     /\ UNCHANGED resultImageUrl
                ELSE IF verdict = "return"
                THEN /\ resultImageUrl' = imageUrl
                     /\ status' = "Generation Complete!"
                     /\ loading' = FALSE
                     /\ debugResponse' = [label |-> "Polling Response",
                                          json |-> response.value]
                     /\ sub' = [sub EXCEPT ![s] =
                                  [r EXCEPT !.pc = "done",
                                            !.outcome = [kind |-> "done",
                                                         value |-> imageUrl]]]
                     /\ UNCHANGED error
                ELSE /\ debugResponse' = [label |-> "Polling Response",
                                          json |-> response.value]
                     /\ sub' = [sub EXCEPT ![s] = [r EXCEPT !.pc = "delay"]]
                     /\ UNCHANGED <<loading, status, error, resultImageUrl>>
    /\ UNCHANGED <<appVars, debugRequest>>

DelayElapseTwice(s) ==
    /\ sub[s].pc = "delay"
    /\ sub' = [sub EXCEPT ![s].pc = "polling", ![s].attempts = @ + 1,
                          ![s].delays = @ + 2]
    /\ UNCHANGED <<appVars, outVars, net>>

\* The 10-second timer of the iteration fires: attempts++
DelayElapse(s) ==
    /\ sub[s].pc = "delay"
    /\ sub' = [sub EXCEPT ![s].pc = "polling", ![s].attempts = @ + 1,
                          ![s].delays = @ + 1]
    /\ UNCHANGED <<appVars, outVars, net>>

(***************************************************************************)
(* The application: the state after the mount effects, and its handlers.   *)
(***************************************************************************)
ApiKeys == {"", "key-1"}

\* onChange of the API key input
SetApiKey(k) ==
    /\ k # apiKey
    /\ apiKey' = k
    /\ UNCHANGED <<modelName, selectedConfig, prompt, width, height, style, contrast,
                   alchemy, photoReal, guidanceImages, up, now, outVars, sub, net>>

\* onSubmit of the form
Submit(s) ==
    /\ SubmitEnabled
    /\ sub[s].pc \in {"idle", "done"}
    /\ sub[s].run < MaxSubmissions
    /\ handleSubmit(s)
    /\ UNCHANGED appVars

Init ==
    /\ apiKey = ""
    /\ modelName = imageModels[1]
    /\ selectedConfig = getModelConfig(imageModels[1])
    /\ prompt = "A majestic lion in a futuristic city, photorealistic"
    /\ width = ASPECT_RATIO_DIMENSIONS["1:1"].width
    /\ height = ASPECT_RATIO_DIMENSIONS["1:1"].height
    /\ style = IF Truthy(getModelConfig(imageModels[1]).defaults.style)
               THEN getModelConfig(imageModels[1]).defaults.style ELSE "None"
    /\ contrast = IF getModelConfig(imageModels[1]).supports.contrast
                     /\ getModelConfig(imageModels[1]).defaults.contrast # 0
                  THEN getModelConfig(imageModels[1]).defaults.contrast ELSE 10
    /\ alchemy = getModelConfig(imageModels[1]).supports.alchemy
    /\ photoReal = (getModelConfig(imageModels[1]).supports.alchemy
                    /\ getModelConfig(imageModels[1]).defaults.photoReal)
    /\ guidanceImages = <<>>
    /\ loading = FALSE
    /\ status = "Idle. Enter your API Key and a prompt to begin."
    /\ error = Null
    /\ resultImageUrl = Null
    /\ debugRequest = NoBody
    /\ debugResponse = NoDebugResponse
    /\ sub = [s \in Subs |-> IdleSub]
    /\ net = {}
    /\ up = <<>>
    /\ now = 0

Next ==
    \/ \E k \in ApiKeys : SetApiKey(k)
    \/ \E s \in Subs : Submit(s)
    \/ \E s \in Subs, o \in FetchFailures \cup {Responded(200, "", TRUE, j) : j \in InitialResponses} :
         PostResolve(s, o)
    \/ \E s \in Subs : PollIssue(s)
    \/ \E s \in Subs, o \in FetchFailures \cup {Responded(200, "", TRUE, j) : j \in StatusResponses} :
         PollResolve(s, o)
    \/ \E s \in Subs : DelayElapse(s)

Spec == Init /\ [][Next]_vars

(***************************************************************************)
(* What the environment did last, read off the history of a slot without   *)
(* any of the program's own operators.                                     *)
(***************************************************************************)
LastWas(s, method) == sub[s].lastMethod = method /\ sub[s].lastFetch.kind # "none"

LastFailed(s) ==
    \/ sub[s].lastFetch.kind = "reject"
    \/ sub[s].lastFetch.kind = "response"
       /\ (sub[s].lastFetch.status < 200 \/ sub[s].lastFetch.status > 299)

LastJson(s) ==
    /\ sub[s].lastFetch.kind = "response"
    /\ sub[s].lastFetch.status >= 200 /\ sub[s].lastFetch.status <= 299
    /\ sub[s].lastFetch.parses

\* The error a failed fetch is documented to surface as.
LastFailureMessage(s) ==
    IF sub[s].lastFetch.kind = "reject" THEN sub[s].lastFetch.text
    ELSE "API request failed with status " \o ToString(sub[s].lastFetch.status)
         \o ": " \o sub[s].lastFetch.text

LastStatusIs(s, st) ==
    /\ LastWas(s, "GET") /\ LastJson(s)
    /\ "generations_by_pk" \in DOMAIN sub[s].lastFetch.json
    /\ "status" \in DOMAIN sub[s].lastFetch.json.generations_by_pk
    /\ sub[s].lastFetch.json.generations_by_pk.status = st

LastHasImages(s) ==
    /\ "generated_images" \in DOMAIN sub[s].lastFetch.json.generations_by_pk
    /\ Len(sub[s].lastFetch.json.generations_by_pk.generated_images) > 0

LastFirstImage(s) == sub[s].lastFetch.json.generations_by_pk.generated_images[1]

LastFirstImageHasUrl(s) ==
    /\ LastHasImages(s)
    /\ "url" \in DOMAIN LastFirstImage(s)
    /\ LastFirstImage(s).url # ""

EndedWithError(s, message) ==
    /\ sub[s].pc = "done"
    /\ sub[s].outcome = [kind |-> "error", value |-> message]
    /\ error = message

EndedDone(s, url) ==
    /\ sub[s].pc = "done"
    /\ sub[s].outcome = [kind |-> "done", value |-> url]
    /\ resultImageUrl = url

\* C1: when every status poll answers PENDING the coordinator fails with
\* "Polling timed out." after exactly 30 status requests, and no slot ever
\* issues a 31st status request.
C1_TimeoutAfterThirtyPolls ==
    \A s \in Subs :
        /\ sub[s].polls <= 30
        /\ (sub[s].pc = "done" /\ LastWas(s, "GET") /\ sub[s].pendings = sub[s].answers)
              => (EndedWithError(s, "Polling timed out.") /\ sub[s].polls = 30)
        /\ (sub[s].outcome.value = "Polling timed out.")
              => (sub[s].polls = 30 /\ sub[s].answers = 30)

C1_Witness ==
    \E s \in Subs :
        /\ EndedWithError(s, "Polling timed out.")
        /\ sub[s].pendings = 30 /\ sub[s].polls = 30

\* C2 as stated: k PENDING answers (0 <= k <= 29) and then COMPLETE with a
\* non-empty generated_images list end in Done with the url of the first
\* generated image, after exactly k + 1 status requests.
C2_AsStated ==
    \A s \in Subs :
        (/\ LastStatusIs(s, "COMPLETE")
         /\ LastHasImages(s)
         /\ sub[s].pendings = sub[s].answers - 1)
        => (/\ "url" \in DOMAIN LastFirstImage(s)
            /\ EndedDone(s, LastFirstImage(s).url)
            /\ sub[s].polls = sub[s].pendings + 1)

\* C2 (amended): k PENDING answers (0 <= k <= 29) and then COMPLETE with a
\* generated_images list whose first entry carries a non-empty url end in Done
\* with that url, after exactly k + 1 status requests.
C2_FirstUrlAfterPendings ==
    \A s \in Subs :
        (/\ LastStatusIs(s, "COMPLETE")
         /\ LastFirstImageHasUrl(s)
         /\ sub[s].pendings = sub[s].answers - 1)
        => (/\ EndedDone(s, LastFirstImage(s).url)
            /\ error = Null
            /\ sub[s].pendings \in 0..29
            /\ sub[s].polls = sub[s].pendings + 1)

C2_Witness ==
    \E s \in Subs :
        /\ LastStatusIs(s, "COMPLETE") /\ LastHasImages(s)
        /\ Len(sub[s].lastFetch.json.generations_by_pk.generated_images) = 2
        /\ sub[s].pendings = 29 /\ sub[s].polls = 30
        /\ EndedDone(s, "http://x/y.png")

\* C3: a status request that fails (transport failure or HTTP non-2xx) ends the
\* coordinator at once with that error: it is not retried, it is not counted as
\* a PENDING observation, and no later status request is issued.
C3_PollFailureEndsCoordinator ==
    \A s \in Subs :
        (LastWas(s, "GET") /\ LastFailed(s))
        => (/\ EndedWithError(s, LastFailureMessage(s))
            /\ resultImageUrl = Null
            /\ sub[s].polls = sub[s].answers
            /\ sub[s].attempts = sub[s].answers - 1
            /\ sub[s].pendings <= sub[s].answers - 1
            /\ InFlight(s, "GET") = {})

C3_Witness ==
    \E s \in Subs :
        /\ LastWas(s, "GET") /\ sub[s].lastFetch.kind = "reject"
        /\ sub[s].pendings = 2 /\ sub[s].polls = 3
        /\ EndedWithError(s, "Failed to fetch")

\* C4: the first status response that reports FAILED ends the coordinator with
\* "Generation failed."; no status request follows and no result url is set.
C4_FailedEndsCoordinator ==
    \A s \in Subs :
        LastStatusIs(s, "FAILED")
        => (/\ EndedWithError(s, "Generation failed.")
            /\ resultImageUrl = Null
            /\ sub[s].polls = sub[s].answers
            /\ InFlight(s, "GET") = {})

C4_Witness ==
    \E s \in Subs :
        /\ LastStatusIs(s, "FAILED")
        /\ sub[s].pendings = 1 /\ sub[s].polls = 2
        /\ EndedWithError(s, "Generation failed.")

\* C5: a status response that reports COMPLETE without an output url
\* (generated_images missing or empty, or a first entry without url) ends the
\* coordinator with the missing-asset error: not Done, and no further polling.
C5_CompleteWithoutUrl ==
    \A s \in Subs :
        (LastStatusIs(s, "COMPLETE") /\ ~LastFirstImageHasUrl(s))
        => (/\ EndedWithError(s, "Generation completed, but no image URL was found.")
            /\ resultImageUrl = Null
            /\ sub[s].polls = sub[s].answers
            /\ InFlight(s, "GET") = {})

C5_Witness ==
    \E s \in Subs :
        /\ LastStatusIs(s, "COMPLETE")
        /\ LastHasImages(s) /\ "url" \notin DOMAIN LastFirstImage(s)
        /\ Len(sub[s].lastFetch.json.generations_by_pk.generated_images) = 2
        /\ EndedWithError(s, "Generation completed, but no image URL was found.")

\* C6: a submission response without sdGenerationJob.generationId ends the
\* coordinator with the missing-identifier error, and no status request is
\* issued.
C6_MissingIdentifier ==
    \A s \in Subs :
        (/\ LastWas(s, "POST") /\ LastJson(s)
         /\ ~(/\ "sdGenerationJob" \in DOMAIN sub[s].lastFetch.json
              /\ "generationId" \in DOMAIN sub[s].lastFetch.json.sdGenerationJob
              /\ sub[s].lastFetch.json.sdGenerationJob.generationId # ""))
        => (/\ EndedWithError(s, "Failed to get generation ID from the initial response.")
            /\ sub[s].polls = 0
            /\ InFlight(s, "GET") = {})

C6_Witness ==
    \E s \in Subs :
        /\ LastWas(s, "POST") /\ LastJson(s)
        /\ "sdGenerationJob" \notin DOMAIN sub[s].lastFetch.json
        /\ EndedWithError(s, "Failed to get generation ID from the initial response.")
        /\ sub[s].polls = 0

\* C7: the requests of one submission are strictly sequential: the POST has
\* resolved before the first status request is issued, every status request
\* has resolved before the next one is issued, and at most one request of the
\* submission is in flight.
C7_OneRequestInFlight ==
    \A s \in Subs :
        /\ Cardinality(InFlight(s, "GET")) <= 1
        /\ Cardinality(InFlight(s, "POST")) + Cardinality(InFlight(s, "GET")) <= 1
        /\ InFlight(s, "POST") # {} => sub[s].polls = 0
        /\ sub[s].polls > 0 => (sub[s].posts = 1 /\ LastWas(s, IF sub[s].answers = 0
                                                               THEN "POST" ELSE "GET"))
        /\ sub[s].polls = sub[s].answers + Cardinality(InFlight(s, "GET"))

C7_Witness ==
    \E s \in Subs :
        /\ Cardinality(InFlight(s, "GET")) = 1
        /\ sub[s].polls = 2 /\ sub[s].answers = 1

\* The error kind a caller reads off the message alone.
MessageKind(m) ==
    CASE m = "Polling timed out." -> "polling timeout"
      [] m = "Generation failed." -> "generation failed"
      [] m = "Generation completed, but no image URL was found." -> "missing asset"
      [] m = "Failed to get generation ID from the initial response." -> "missing identifier"
      [] Len(m) >= Len("API request failed with status ")
         /\ SubSeq(m, 1, Len("API request failed with status "))
              = "API request failed with status " -> "http"
      [] m = "Failed to fetch" -> "transport"
      [] OTHER -> "other"

\* The error kind that the events of the slot's history call for.
HistoryKind(s) ==
    CASE sub[s].lastFetch.kind = "none" -> "other"
      [] sub[s].lastFetch.kind = "reject" -> "transport"
      [] LastFailed(s) -> "http"
      [] ~sub[s].lastFetch.parses -> "other"
      [] sub[s].lastMethod = "POST" -> "missing identifier"
      [] LastStatusIs(s, "FAILED") -> "generation failed"
      [] LastStatusIs(s, "COMPLETE") -> "missing asset"
      [] OTHER -> "polling timeout"

C8_TerminalState ==
    \A s \in Subs :
        /\ sub[s].pc # "done" => sub[s].outcome.kind = "none"
        /\ sub[s].pc = "done" =>
             /\ sub[s].outcome.kind \in {"done", "error"}
             /\ { r \in net : r.sub = s } = {}
             /\ sub[s].outcome.kind = "done" =>
                  (resultImageUrl = sub[s].outcome.value /\ error = Null
                   /\ resultImageUrl # Null)
             /\ sub[s].outcome.kind = "error" =>
                  (error = sub[s].outcome.value /\ resultImageUrl = Null
                   /\ error # Null /\ MessageKind(error) = HistoryKind(s))

C8_TerminalStep ==
    \A s \in Subs :
        (sub[s].pc = "done" /\ sub'[s].run = sub[s].run)
        => (/\ sub'[s] = sub[s]
            /\ error' = error /\ resultImageUrl' = resultImageUrl
            /\ { r \in net' : r.sub = s } = {})

\* C8: every submission ends in exactly one terminal outcome, Done(url) or one
\* error; the kind of the error (HTTP status, transport, missing identifier,
\* missing asset, generation failed, polling timeout) can be read off what the
\* caller gets; after the outcome the submission issues no request and takes no
\* step.
C8_ExactlyOneOutcome == []C8_TerminalState /\ [][C8_TerminalStep]_vars

C8_Witness ==
    \E s \in Subs :
        /\ sub[s].run = 2 /\ sub[s].pc = "done"
        /\ LastWas(s, "GET") /\ LastFailed(s) /\ sub[s].lastFetch.kind = "response"
        /\ sub[s].outcome.kind = "error" /\ MessageKind(error) = "http"

(***************************************************************************)
(* The parameter builder alone: handleSubmit applied once to every         *)
(* combination of a capability descriptor, a list of guidance images and   *)
(* the alchemy / photoReal / style inputs.  The descriptors are those of   *)
(* the shipped table and, since the builder is written for any             *)
(* ModelSupports value, two more that the type admits: one with a          *)
(* usesWeight entry and one that declares both guidance families.          *)
(***************************************************************************)
GuidanceImage(tempId, id, st, guidanceType, strengthType, weight, contextType) ==
    [tempId |-> tempId, id |-> id, file |-> tempId, status |-> st,
     guidanceType |-> guidanceType, strengthType |-> strengthType,
     weight |-> weight, contextType |-> contextType]

\* An image is ready only with the id of its ticket, and has no id before:
\* handleImageUpload tests id before it sets status ready.
ImagePool ==
    { GuidanceImage("1a.png", "img-a", "ready", "Style Reference", "High", 100, ""),
      GuidanceImage("2b.png", "img-b", "ready", "Character Reference", "Mid", 150, ""),
      GuidanceImage("3c.png", "img-c", "ready", "", "Mid", 100, "SUBJECT_AND_STYLE"),
      GuidanceImage("4d.png", "img-d", "ready", "Style Reference", "Mid", 100, "NEGATIVE"),
      GuidanceImage("5e.png", Null, "uploading", "Style Reference", "Mid", 100, ""),
      GuidanceImage("6f.png", Null, "error", "", "Mid", 100, "SUBJECT_AND_STYLE") }

ImageLists == UNION { [1..n -> ImagePool] : n \in 0..MaxImages }

WeightedGuidance ==
    << GuidanceEntry("Style Reference", 67, 4, TRUE),
       GuidanceEntry("Character Reference", 133, 1, FALSE) >>

HypotheticalDescriptors ==
    { GuidanceModel("m-weighted", TRUE, TRUE, WeightedGuidance, "Dynamic", 10),
      Descriptor("m-both", "image-generation", FALSE, FALSE, TRUE, WeightedGuidance,
                 TRUE, KontextTypes, "", 0) }

BuildDescriptors ==
    { getModelConfig(imageModels[i]) : i \in DOMAIN imageModels }
    \cup HypotheticalDescriptors

InitBuild ==
    /\ apiKey = "key-1"
    /\ modelName = imageModels[1]
    /\ selectedConfig \in BuildDescriptors
    /\ prompt = "x"
    /\ width = 1024
    /\ height = 1024
    /\ style \in {"None", "Sketch Bw"}
    /\ contrast = 10
    /\ alchemy \in BOOLEAN
    /\ photoReal \in BOOLEAN
    /\ guidanceImages \in ImageLists
    /\ loading = FALSE
    /\ status = "Idle. Enter your API Key and a prompt to begin."
    /\ error = Null
    /\ resultImageUrl = Null
    /\ debugRequest = NoBody
    /\ debugResponse = NoDebugResponse
    /\ sub = [s \in Subs |-> IdleSub]
    /\ net = {}
    /\ up = <<>>
    /\ now = 0

NextBuild == \E s \in Subs : Submit(s)

SpecBuild == InitBuild /\ [][NextBuild]_vars

\* The images the claims call ready, and the request bodies that were sent.
StatusReady == SelectSeq(guidanceImages, LAMBDA img : img.status = "ready")

SentBodies == { r.body : r \in { q \in net : q.method = "POST" } }

\* The declared entry of a guidance type in the selected descriptor's table.
DeclaredEntry(type) ==
    CHOOSE e \in { selectedConfig.supports.guidance[i] :
                     i \in DOMAIN selectedConfig.supports.guidance } : e.type = type

\* C9: when the selected descriptor declares contextGuidance the built request
\* never contains controlnets, whatever guidance type the images carry, and
\* with at least one ready image it contains contextImages with one
\* {init_image_id, context} entry per ready image, in order.
C9_ContextTakesPriority ==
    selectedConfig.supports.hasContextGuidance =>
        /\ \A s \in Subs : sub[s].run > 0 => InFlight(s, "POST") # {}
        /\ \A body \in SentBodies :
             /\ "controlnets" \notin DOMAIN body
             /\ Len(StatusReady) > 0 =>
                  /\ "contextImages" \in DOMAIN body
                  /\ body["contextImages"] =
                       [i \in DOMAIN StatusReady |->
                          [init_image_id |-> StatusReady[i].id,
                           context |-> StatusReady[i].contextType]]

C9_Witness ==
    /\ selectedConfig.supports.hasContextGuidance
    /\ selectedConfig.supports.hasGuidance
    /\ Len(guidanceImages) = 2 /\ Len(StatusReady) = 1
    /\ StatusReady[1].guidanceType = "Style Reference"
    /\ \E body \in SentBodies :
         /\ "contextImages" \in DOMAIN body /\ Len(body["contextImages"]) = 1
         /\ "controlnets" \notin DOMAIN body

\* C10: every emitted controlnets entry carries exactly one of weight and
\* strengthType: weight (the image's) when the table entry of the image's
\* guidance type has usesWeight true, strengthType (the image's) otherwise.
C10_WeightXorStrengthType ==
    \A body \in SentBodies :
        "controlnets" \in DOMAIN body =>
            /\ Len(body["controlnets"]) = Len(StatusReady)
            /\ \A i \in DOMAIN body["controlnets"] :
                 LET e == body["controlnets"][i]
                     img == StatusReady[i]
                 IN  /\ ("weight" \in DOMAIN e) # ("strengthType" \in DOMAIN e)
                     /\ IF DeclaredEntry(img.guidanceType).usesWeight
                        THEN "weight" \in DOMAIN e /\ e["weight"] = img.weight
                        ELSE "strengthType" \in DOMAIN e
                             /\ e["strengthType"] = img.strengthType

C10_Witness ==
    /\ Len(guidanceImages) = 2
    /\ ~selectedConfig.supports.hasContextGuidance
    /\ \E body \in SentBodies :
         /\ "controlnets" \in DOMAIN body /\ Len(body["controlnets"]) = 2
         /\ "weight" \in DOMAIN body["controlnets"][1]
         /\ "strengthType" \in DOMAIN body["controlnets"][2]

\* C11: a built request carries a photoReal key only if the descriptor
\* declares alchemy support and the alchemy toggle is on, and then the same
\* request carries alchemy: true.
C11_PhotoRealOnlyWithAlchemy ==
    \A body \in SentBodies :
        "photoReal" \in DOMAIN body =>
            /\ selectedConfig.supports.alchemy
            /\ alchemy
            /\ "alchemy" \in DOMAIN body
            /\ body["alchemy"] = TRUE

C11_Witness ==
    /\ selectedConfig.supports.alchemy /\ alchemy
    /\ \E body \in SentBodies :
         "photoReal" \in DOMAIN body /\ body["photoReal"] = photoReal

\* C12: a built request carries a presetStyle key only if the descriptor
\* declares alchemy support, the alchemy toggle is on and the selected style
\* is not "None"; with alchemy off or unsupported, or style "None", the key
\* is absent.
C12_PresetStyleOnlyWithAlchemy ==
    \A body \in SentBodies :
        "presetStyle" \in DOMAIN body =>
            selectedConfig.supports.alchemy /\ alchemy /\ style # "None"

C12_Witness ==
    /\ selectedConfig.supports.alchemy /\ alchemy /\ style = "Sketch Bw"
    /\ \E body \in SentBodies :
         "presetStyle" \in DOMAIN body /\ body["presetStyle"] = "SKETCH_BW"

\* C15: a built request carries an alchemy key if and only if the descriptor
\* declares alchemy support, and the key's value is the alchemy toggle, false
\* included.
C15_AlchemyKeyIffSupported ==
    \A body \in SentBodies :
        /\ ("alchemy" \in DOMAIN body) <=> selectedConfig.supports.alchemy
        /\ "alchemy" \in DOMAIN body => body["alchemy"] = alchemy

C15_Witness ==
    /\ selectedConfig.supports.alchemy /\ ~alchemy
    /\ \E body \in SentBodies :
         "alchemy" \in DOMAIN body /\ body["alchemy"] = FALSE

\* C16: a built request carries a contrast key if and only if the descriptor
\* declares contrast support, whatever its alchemy support and whatever the
\* alchemy toggle.
C16_ContrastKeyIffSupported ==
    \A body \in SentBodies :
        /\ ("contrast" \in DOMAIN body) <=> selectedConfig.supports.contrast
        /\ "contrast" \in DOMAIN body => body["contrast"] = contrast

C16_Witness ==
    /\ selectedConfig.supports.contrast /\ ~selectedConfig.supports.alchemy
    /\ \E body \in SentBodies : "contrast" \in DOMAIN body

\* The five keys every built body has, with the values the builder gives them.
MinimalBody(body) ==
    /\ DOMAIN body = {"prompt", "modelId", "width", "height", "num_images"}
    /\ body["prompt"] = prompt
    /\ body["modelId"] = selectedConfig.id
    /\ body["width"] = width
    /\ body["height"] = height
    /\ body["num_images"] = 1

\* C17 as stated: for a descriptor with an id and no alchemy support, and no
\* guidance images, the built body is prompt, modelId, width, height and
\* num_images = 1, with none of alchemy, photoReal, presetStyle, contrast.
C17_AsStated ==
    (/\ selectedConfig.id # Null
     /\ ~selectedConfig.supports.alchemy
     /\ Len(guidanceImages) = 0)
    => /\ \A s \in Subs : sub[s].run > 0 => InFlight(s, "POST") # {}
       /\ \A body \in SentBodies : MinimalBody(body)

\* C17: for a descriptor with an id that declares neither alchemy nor contrast
\* support, and no guidance images, the built body consists of prompt,
\* modelId, width, height and num_images = 1 and of no other key.
C17_MinimalBody ==
    (/\ selectedConfig.id # Null
     /\ ~selectedConfig.supports.alchemy
     /\ ~selectedConfig.supports.contrast
     /\ Len(guidanceImages) = 0)
    => /\ \A s \in Subs : sub[s].run > 0 => InFlight(s, "POST") # {}
       /\ \A body \in SentBodies : MinimalBody(body)

C17_Witness ==
    /\ selectedConfig.id # Null
    /\ ~selectedConfig.supports.alchemy /\ ~selectedConfig.supports.contrast
    /\ Len(guidanceImages) = 0
    /\ alchemy /\ style = "Sketch Bw"
    /\ \E body \in SentBodies : MinimalBody(body)

\* The ready images carrying a type the selected descriptor does not declare,
\* in the family the builder emits for that descriptor.
DeclaredGuidanceTypes ==
    { selectedConfig.supports.guidance[i].type :
        i \in DOMAIN selectedConfig.supports.guidance }

DeclaredContextTypes ==
    { selectedConfig.supports.contextGuidance[i] :
        i \in DOMAIN selectedConfig.supports.contextGuidance }

UndeclaredGuidanceType ==
    /\ ~selectedConfig.supports.hasContextGuidance
    /\ selectedConfig.supports.hasGuidance
    /\ \E i \in DOMAIN guidanceImages :
         /\ guidanceImages[i].status = "ready" /\ guidanceImages[i].id # Null
         /\ guidanceImages[i].guidanceType \notin DeclaredGuidanceTypes

UndeclaredContextType ==
    /\ selectedConfig.supports.hasContextGuidance
    /\ \E i \in DOMAIN guidanceImages :
         /\ guidanceImages[i].status = "ready" /\ guidanceImages[i].id # Null
         /\ guidanceImages[i].contextType \notin DeclaredContextTypes

FailedWithoutRequest(s) ==
    /\ sub[s].pc = "done"
    /\ sub[s].outcome.kind = "error"
    /\ sub[s].posts = 0
    /\ net = {}

\* C14 as stated: building fails with a validation error and no submission
\* request is sent whenever a ready image references a guidance type the
\* descriptor's guidance table does not declare or a context type its
\* contextGuidance list does not declare.
C14_AsStated ==
    \A s \in Subs :
        (sub[s].run > 0 /\ (UndeclaredGuidanceType \/ UndeclaredContextType))
        => FailedWithoutRequest(s)

\* The guidance half of C14: a ready image with an undeclared guidance type
\* fails the build of a guidance descriptor, and nothing is sent.
C14_GuidanceTypeValidated ==
    \A s \in Subs :
        (sub[s].run > 0 /\ UndeclaredGuidanceType)
        => /\ FailedWithoutRequest(s)
           /\ \E i \in DOMAIN guidanceImages :
                sub[s].outcome.value =
                  "Invalid guidance type \"" \o guidanceImages[i].guidanceType
                  \o "\" for this model."

C14_GuidanceWitness ==
    \E s \in Subs : sub[s].run > 0 /\ UndeclaredGuidanceType /\ FailedWithoutRequest(s)

(***************************************************************************)
(* The asset upload protocol: handleImageUpload with the two client calls  *)
(* getInitImageUploadUrl (the ticket request) and uploadImageToS3 (the     *)
(* push), and the handlers that edit the list of guidance images.  Entry u *)
(* of `up` is the u-th invocation of handleImageUpload.  A File is an      *)
(* object: the file of an image is its name and `ref`, the invocation the  *)
(* object was handed to, which tells two files of one name apart.          *)
(***************************************************************************)
MaxUploads == 2

FileNames == {"cat.PNG", "dog."}

\* The name a request in flight carries for the invocation that awaits it.
UploadNames == [u \in 1..MaxUploads |-> "u" \o ToString(u)]

UploadName(u) == UploadNames[u]

\* file.name.split('.').pop(): what follows the last "." of the name, the
\* whole name when it has none.
LastSegment(name) ==
    LET dots == { i \in 1..Len(name) : SubSeq(name, i, i) = "." }
    IN  IF dots = {} THEN name
        ELSE LET last == CHOOSE i \in dots : \A j \in dots : j <= i
             IN  SubSeq(name, last + 1, Len(name))

LowerChar(c) ==
    IF \E i \in 1..Len(UpperCase) : SubSeq(UpperCase, i, i) = c
    THEN LET i == CHOOSE j \in 1..Len(UpperCase) : SubSeq(UpperCase, j, j) = c
         IN  SubSeq(LowerCase, i, i)
    ELSE c

RECURSIVE toLowerCase(_)
toLowerCase(str) ==
    IF Len(str) = 0 THEN ""
    ELSE LowerChar(SubSeq(str, 1, 1)) \o toLowerCase(SubSeq(str, 2, Len(str)))

\* getInitImageUploadUrl: the payload of POST /init-image
InitImagePayload(extension) == [extension |-> toLowerCase(extension)]

\* The content of the File handed to invocation u, as the form carries it.
FilePayloads == [u \in 1..MaxUploads |-> "blob-" \o ToString(u)]

FormDataFileFirst(fields, file) ==
    << <<"file", file>> >> \o fields

\* uploadImageToS3: the form, the entries of `fields` and then the file
FormData(fields, file) ==
    fields \o << <<"file", file>> >>

\* The `fields` string of a ticket: a JSON object, or text JSON.parse rejects.
FieldsJson == [parses |-> TRUE, entries |-> << <<"key", "uploads/k">> >>]
BadFieldsJson == [parses |-> FALSE, entries |-> <<>>]

\* The bodies the service may answer the u-th ticket request with: nothing of
\* the declared shape, a whole ticket, one without id, one with broken fields.
\* The service names every asset differently.
TicketBodies(u) ==
    { NoBody,
      [uploadInitImage |-> [id |-> "asset-" \o ToString(u), fields |-> FieldsJson,
                            url |-> "https://s3/" \o ToString(u)]],
      [uploadInitImage |-> [id |-> Null, fields |-> FieldsJson,
                            url |-> "https://s3/" \o ToString(u)]],
      [uploadInitImage |-> [id |-> "asset-" \o ToString(u), fields |-> BadFieldsJson,
                            url |-> "https://s3/" \o ToString(u)]] }

TicketTable == [u \in 1..MaxUploads |-> TicketBodies(u)]

TicketResponses(u) == TicketTable[u]

\* fetch with mode no-cors: it rejects, or resolves with an opaque response
\* (status 0, nothing readable), whatever the storage service did.
OpaqueResponse == Responded(0, "", FALSE, NoBody)

\* The ways a ticket request fails that the upload model tells apart: fetch
\* rejects, or the service answers with an error status.
TicketFailures == TransportFailures \cup {Responded(500, "quota exceeded", FALSE, NoBody)}
PushOutcomes == TransportFailures \cup {OpaqueResponse}

DestructureError == "Cannot destructure property 'id' of undefined"
PushNetworkError == "Upload failed due to a network error."
MissingAssetId == "Could not retrieve image ID after upload."
NoExtension == "Could not determine file extension."
UploadNeedsKey == "API Key is required to upload images."

supportedGuidance ==
    IF selectedConfig.supports.hasGuidance
    THEN [i \in DOMAIN selectedConfig.supports.guidance |->
            selectedConfig.supports.guidance[i].type]
    ELSE <<>>

supportedContextGuidance ==
    IF selectedConfig.supports.hasContextGuidance
    THEN selectedConfig.supports.contextGuidance ELSE <<>>

\* const newImage of handleImageUpload (previewUrl is not modelled)
NewImage(tempId, file, u) ==
    LET defaultGuidanceType ==
            IF Len(supportedGuidance) > 0 THEN supportedGuidance[1] ELSE ""
        defaultStrengthType ==
            IF defaultGuidanceType \in DOMAIN GUIDANCE_STRENGTH_TYPES
            THEN GUIDANCE_STRENGTH_TYPES[defaultGuidanceType][2] ELSE "Mid"
        defaultContextType ==
            IF Len(supportedContextGuidance) > 0 THEN supportedContextGuidance[1] ELSE ""
    IN  [tempId |-> tempId, id |-> Null, file |-> [name |-> file, ref |-> u],
         status |-> "uploading", error |-> Null,
         guidanceType |-> defaultGuidanceType, strengthType |-> defaultStrengthType,
         weight |-> 100, contextType |-> defaultContextType]

MarkReadyAnyImage(list, tempId, id) ==
    [i \in DOMAIN list |-> [list[i] EXCEPT !.status = "ready", !.id = id]]

MarkReadyOrAdd(list, tempId, id) ==
    IF \E i \in DOMAIN list : list[i].tempId = tempId
    THEN [i \in DOMAIN list |->
            IF list[i].tempId = tempId
            THEN [list[i] EXCEPT !.status = "ready", !.id = id] ELSE list[i]]
    ELSE Append(list, [tempId |-> tempId, id |-> id, file |-> [name |-> "", ref |-> 0],
                       status |-> "ready", error |-> Null, guidanceType |-> "",
                       strengthType |-> "Mid", weight |-> 100, contextType |-> ""])

\* prev.map(img => img.tempId === tempId ? { ...img, status: 'ready', id } : img)
MarkReady(list, tempId, id) ==
    [i \in DOMAIN list |->
        IF list[i].tempId = tempId
        THEN [list[i] EXCEPT !.status = "ready", !.id = id] ELSE list[i]]

\* prev.map(img => img.tempId === tempId ? { ...img, status: 'error', error } : img)
MarkError(list, tempId, message) ==
    [i \in DOMAIN list |->
        IF list[i].tempId = tempId
        THEN [list[i] EXCEPT !.status = "error",
                             !.error = IF Truthy(message) THEN message
                                       ELSE "Upload failed"]
        ELSE list[i]]

\* History: the status of the image of invocation v in a list (Null when the
\* list does not hold it), and the trails after a list became another.
StatusOf(list, v) ==
    IF \E i \in DOMAIN list : list[i].file.ref = v
    THEN list[CHOOSE i \in DOMAIN list : list[i].file.ref = v].status
    ELSE Null

Trails(ups, before, after) ==
    [v \in DOMAIN ups |->
        IF StatusOf(after, v) # Null /\ StatusOf(after, v) # StatusOf(before, v)
        THEN [ups[v] EXCEPT !.trail = Append(@, StatusOf(after, v))]
        ELSE ups[v]]

\* The button of the upload area: rendered when the model supports a guidance
\* family, disabled={loading || !apiKey}
UploadEnabled ==
    /\ ~loading /\ Truthy(apiKey)
    /\ (Len(supportedGuidance) > 0 \/ Len(supportedContextGuidance) > 0)

\* catch (err) of handleImageUpload, ending invocation u of `ups` on `list`
UploadCatch(u, ups, list, message) ==
    /\ guidanceImages' = MarkError(list, ups[u].tempId, message)
    /\ up' = Trails([ups EXCEPT ![u].pc = "done", ![u].message = message],
                    list, MarkError(list, ups[u].tempId, message))
    /\ status' = "Image upload failed."

\* handleImageUpload(file) up to its first await; Date.now() has advanced by dt
handleImageUpload(file, dt) ==
    LET u == Len(up) + 1
        tempId == ToString(now + dt) \o file
        newImage == NewImage(tempId, file, u)
        extension == LastSegment(file)
        started == Append(up, [IdleUpload EXCEPT !.pc = "awaitTicket", !.file = file,
                                                 !.tempId = tempId,
                                                 !.trail = <<"uploading">>])
        list == Append(guidanceImages, newImage)
    IN  /\ now' = now + dt
        /\ IF ~Truthy(apiKey)
           THEN UploadCatch(u, started, list, UploadNeedsKey) /\ UNCHANGED net
           ELSE IF ~Truthy(extension)
           THEN UploadCatch(u, started, list, NoExtension) /\ UNCHANGED net
           ELSE /\ guidanceImages' = list
                /\ status' = "Uploading image..."
                /\ up' = [started EXCEPT ![u].tickets = 1]
                /\ net' = net \cup {Request(UploadName(u), "POST", "/init-image",
                                            InitImagePayload(extension), 1)}

\* onChange of the file input, for one file of the selection
StartUpload(file, dt) ==
    /\ UploadEnabled
    /\ Len(up) < MaxUploads
    /\ handleImageUpload(file, dt)
    /\ UNCHANGED <<apiKey, modelName, selectedConfig, prompt, width, height, style,
                   contrast, alchemy, photoReal, loading, error, resultImageUrl,
                   debugRequest, debugResponse, sub>>

\* await api.getInitImageUploadUrl(extension) resolves with o, and the handler
\* runs on to its next await
TicketResolve(u, o) ==
    /\ u \in DOMAIN up
    /\ up[u].pc = "awaitTicket"
    /\ \E r \in net :
         /\ r.sub = UploadName(u) /\ r.path = "/init-image"
         /\ LET response == request(o)
                ups == [up EXCEPT ![u].ticketFetch = o]
            IN  IF ~response.ok
                THEN UploadCatch(u, ups, guidanceImages, response.message)
                     /\ net' = net \ {r}
                ELSE IF "uploadInitImage" \notin DOMAIN response.value
                THEN UploadCatch(u, ups, guidanceImages, DestructureError)
                     /\ net' = net \ {r}
                ELSE IF ~response.value.uploadInitImage.fields.parses
                THEN UploadCatch(u, ups, guidanceImages, JsonSyntaxError)
                     /\ net' = net \ {r}
                ELSE LET ticket == response.value.uploadInitImage
                     IN  /\ up' = [ups EXCEPT ![u].pc = "awaitPush",
                                              ![u].id = ticket.id,
                                              ![u].url = ticket.url,
                                              ![u].fields = ticket.fields.entries,
                                              ![u].pushes = @ + 1]
                         /\ net' = (net \ {r}) \cup
                                   {Request(UploadName(u), "POST", ticket.url,
                                            FormData(ticket.fields.entries,
                                                     FilePayloads[u]),
                                            up[u].pushes + 1)}
                         /\ UNCHANGED <<guidanceImages, status>>
    /\ UNCHANGED <<apiKey, modelName, selectedConfig, prompt, width, height, style,
                   contrast, alchemy, photoReal, now, loading, error, resultImageUrl,
                   debugRequest, debugResponse, sub>>

PushResolveReadsStatus(u, o) ==
    /\ u \in DOMAIN up
    /\ up[u].pc = "awaitPush"
    /\ \E r \in net :
         /\ r.sub = UploadName(u) /\ r.path = up[u].url
         /\ net' = net \ {r}
         /\ LET ups == [up EXCEPT ![u].pushFetch = o]
            IN  IF o.kind = "reject" \/ ~ResponseOk(o)
                THEN UploadCatch(u, ups, guidanceImages, PushNetworkError)
                ELSE IF ~Truthy(up[u].id)
                THEN UploadCatch(u, ups, guidanceImages, MissingAssetId)
                ELSE /\ guidanceImages' = MarkReady(guidanceImages, up[u].tempId, up[u].id)
                     /\ up' = Trails([ups EXCEPT ![u].pc = "done"], guidanceImages,
                                     MarkReady(guidanceImages, up[u].tempId, up[u].id))
                     /\ status' = "Image upload successful."
    /\ UNCHANGED <<apiKey, modelName, selectedConfig, prompt, width, height, style,
                   contrast, alchemy, photoReal, now, loading, error, resultImageUrl,
                   debugRequest, debugResponse, sub>>

PushResolveRetries(u, o) ==
    /\ u \in DOMAIN up
    /\ up[u].pc = "awaitPush"
    /\ \E r \in net :
         /\ r.sub = UploadName(u) /\ r.path = up[u].url
         /\ IF o.kind = "reject"
            THEN /\ net' = (net \ {r}) \cup
                           {Request(UploadName(u), "POST", up[u].url, r.body,
                                    up[u].pushes + 1)}
                 /\ up' = [up EXCEPT ![u].pushes = @ + 1]
                 /\ UNCHANGED <<guidanceImages, status>>
            ELSE IF ~Truthy(up[u].id)
            THEN UploadCatch(u, up, guidanceImages, MissingAssetId) /\ net' = net \ {r}
            ELSE /\ guidanceImages' = MarkReady(guidanceImages, up[u].tempId, up[u].id)
                 /\ up' = Trails([up EXCEPT ![u].pc = "done"], guidanceImages,
                                 MarkReady(guidanceImages, up[u].tempId, up[u].id))
                 /\ status' = "Image upload successful."
                 /\ net' = net \ {r}
    /\ UNCHANGED <<apiKey, modelName, selectedConfig, prompt, width, height, style,
                   contrast, alchemy, photoReal, now, loading, error, resultImageUrl,
                   debugRequest, debugResponse, sub>>

\* await api.uploadImageToS3(url, fields, file) resolves with o, and the
\* handler runs to its end
PushResolve(u, o) ==
    /\ u \in DOMAIN up
    /\ up[u].pc = "awaitPush"
    /\ \E r \in net :
         /\ r.sub = UploadName(u) /\ r.path = up[u].url
         /\ net' = net \ {r}
         /\ LET ups == [up EXCEPT ![u].pushFetch = o]
            IN  IF o.kind = "reject"
                THEN UploadCatch(u, ups, guidanceImages, PushNetworkError)
                ELSE IF ~Truthy(up[u].id)
                THEN UploadCatch(u, ups, guidanceImages, MissingAssetId)
                ELSE /\ guidanceImages' = MarkReady(guidanceImages, up[u].tempId, up[u].id)
                     /\ up' = Trails([ups EXCEPT ![u].pc = "done"], guidanceImages,
                                     MarkReady(guidanceImages, up[u].tempId, up[u].id))
                     /\ status' = "Image upload successful."
    /\ UNCHANGED <<apiKey, modelName, selectedConfig, prompt, width, height, style,
                   contrast, alchemy, photoReal, now, loading, error, resultImageUrl,
                   debugRequest, debugResponse, sub>>

\* removeGuidanceImage(tempId), the button of the i-th image
removeGuidanceImage(tempId) ==
    guidanceImages' = SelectSeq(guidanceImages, LAMBDA img : img.tempId # tempId)

RemoveImage(i) ==
    /\ i \in DOMAIN guidanceImages
    /\ removeGuidanceImage(guidanceImages[i].tempId)
    /\ UNCHANGED <<apiKey, modelName, selectedConfig, prompt, width, height, style,
                   contrast, alchemy, photoReal, up, now, outVars, sub, net>>

\* onChange of the model select, and the effects that run on modelName,
\* aspectRatio and alchemy before the next event is handled
ModelChoices == {"FLUX.1 Kontext", "Leonardo Phoenix 1.0"}

SetModelNameKeepsImages(n) ==
    LET newConfig == getModelConfig(n)
        alchemySupported == newConfig.supports.alchemy
    IN  /\ n # modelName
        /\ modelName' = n
        /\ selectedConfig' = newConfig
        /\ guidanceImages' = guidanceImages
        /\ alchemy' = alchemySupported
        /\ photoReal' = (alchemySupported /\ newConfig.defaults.photoReal)
        /\ style' = IF Truthy(newConfig.defaults.style)
                    THEN newConfig.defaults.style ELSE "None"
        /\ contrast' = IF newConfig.supports.contrast
                       THEN (IF newConfig.defaults.contrast # 0
                             THEN newConfig.defaults.contrast ELSE 10)
                       ELSE contrast
        /\ width' = ASPECT_RATIO_DIMENSIONS["1:1"].width
        /\ height' = ASPECT_RATIO_DIMENSIONS["1:1"].height
        /\ UNCHANGED <<apiKey, prompt, up, now, outVars, sub, net>>

SetModelName(n) ==
    LET newConfig == getModelConfig(n)
        alchemySupported == newConfig.supports.alchemy
    IN  /\ n # modelName
        /\ modelName' = n
        /\ selectedConfig' = newConfig
        /\ guidanceImages' = <<>>
        /\ alchemy' = alchemySupported
        /\ photoReal' = (alchemySupported /\ newConfig.defaults.photoReal)
        /\ style' = IF Truthy(newConfig.defaults.style)
                    THEN newConfig.defaults.style ELSE "None"
        /\ contrast' = IF newConfig.supports.contrast
                       THEN (IF newConfig.defaults.contrast # 0
                             THEN newConfig.defaults.contrast ELSE 10)
                       ELSE contrast
        /\ width' = ASPECT_RATIO_DIMENSIONS["1:1"].width
        /\ height' = ASPECT_RATIO_DIMENSIONS["1:1"].height
        /\ UNCHANGED <<apiKey, prompt, up, now, outVars, sub, net>>

\* The application once the key is entered, with its upload handlers.
InitUpload ==
    /\ apiKey = "key-1"
    /\ modelName = imageModels[1]
    /\ selectedConfig = getModelConfig(imageModels[1])
    /\ prompt = "A majestic lion in a futuristic city, photorealistic"
    /\ width = ASPECT_RATIO_DIMENSIONS["1:1"].width
    /\ height = ASPECT_RATIO_DIMENSIONS["1:1"].height
    /\ style = "None"
    /\ contrast = 10
    /\ alchemy = FALSE
    /\ photoReal = FALSE
    /\ guidanceImages = <<>>
    /\ loading = FALSE
    /\ status = "Idle. Enter your API Key and a prompt to begin."
    /\ error = Null
    /\ resultImageUrl = Null
    /\ debugRequest = NoBody
    /\ debugResponse = NoDebugResponse
    /\ sub = [s \in Subs |-> IdleSub]
    /\ net = {}
    /\ up = <<>>
    /\ now = 0

NextUpload ==
    \/ \E file \in FileNames, dt \in {0, 1} : StartUpload(file, dt)
    \/ \E u \in 1..MaxUploads :
         \E o \in TicketFailures
                  \cup {Responded(200, "", TRUE, j) : j \in TicketResponses(u)} :
            TicketResolve(u, o)
    \/ \E u \in 1..MaxUploads, o \in PushOutcomes : PushResolve(u, o)
    \/ \E i \in 1..MaxUploads : RemoveImage(i)
    \/ \E n \in ModelChoices : SetModelName(n)

SpecUpload == InitUpload /\ [][NextUpload]_vars

\* The same with the form's submission, up to the request it sends, for
\* uploads started in different milliseconds.
NextUploadSubmit ==
    \/ \E file \in {"cat.PNG"} : StartUpload(file, 1)
    \/ \E u \in 1..MaxUploads :
         \E o \in TransportFailures
                  \cup {Responded(200, "", TRUE, j) : j \in TicketResponses(u)} :
            TicketResolve(u, o)
    \/ \E u \in 1..MaxUploads, o \in PushOutcomes : PushResolve(u, o)
    \/ \E n \in ModelChoices : SetModelName(n)
    \/ \E s \in Subs : Submit(s)

SpecUploadSubmit == InitUpload /\ [][NextUploadSubmit]_vars

\* The submission requests in flight, the images of the list that invocation
\* s found ready when it was called, and the asset ids a body lists.
GenerationRequests(s) == { r \in net : r.sub = s /\ r.path = "/generations" }

ReadyAtSubmit(s) == SelectSeq(sub[s].images, LAMBDA img : img.status = "ready")

ListedAssets(body) ==
    IF "contextImages" \in DOMAIN body
    THEN [i \in DOMAIN body["contextImages"] |-> body["contextImages"][i].init_image_id]
    ELSE IF "controlnets" \in DOMAIN body
    THEN [i \in DOMAIN body["controlnets"] |-> body["controlnets"][i].initImageId]
    ELSE <<>>

C13_BuiltFromSubmissionTimeList ==
    \A s \in Subs :
        sub[s].run > 0 =>
            /\ sub[s].pc = "awaitPost"
            /\ sub[s].outcome.kind = "none"
            /\ Cardinality(GenerationRequests(s)) = 1
            /\ \A r \in GenerationRequests(s) :
                 /\ ("contextImages" \in DOMAIN r.body \/ "controlnets" \in DOMAIN r.body)
                      <=> Len(ReadyAtSubmit(s)) > 0
                 /\ ListedAssets(r.body) =
                      [i \in DOMAIN ReadyAtSubmit(s) |-> ReadyAtSubmit(s)[i].id]
                 /\ \A i \in DOMAIN ListedAssets(r.body) : ListedAssets(r.body)[i] # Null

C13_RequestKept ==
    \A s \in Subs : GenerationRequests(s) \subseteq GenerationRequests(s)'

\* C13: the request is built from the statuses the images have when the form
\* is submitted: an image then uploading or in error is left out of
\* contextImages / controlnets and raises no error, the list key is absent
\* when no image is ready, and no later step (an upload completing, a
\* removal, a model change) alters the request that was sent.
C13_StatusesReadAtSubmission ==
    []C13_BuiltFromSubmissionTimeList /\ [][C13_RequestKept]_vars

\* An image was uploading when the form was submitted and is ready now, next
\* to one that was ready then: the request in flight lists the latter only.
C13_Witness ==
    \E s \in Subs :
        /\ sub[s].run > 0
        /\ Len(sub[s].images) = 2
        /\ sub[s].images[1].status = "ready"
        /\ sub[s].images[2].status = "uploading"
        /\ Len(guidanceImages) = 2
        /\ guidanceImages[2].status = "ready"
        /\ guidanceImages[2].file.ref = sub[s].images[2].file.ref
        /\ \E r \in GenerationRequests(s) :
             ListedAssets(r.body) = << sub[s].images[1].id >>

C13_NoListWitness ==
    \E s \in Subs :
        /\ sub[s].run > 0
        /\ Len(sub[s].images) = 2
        /\ sub[s].images[1].status = "error"
        /\ sub[s].images[2].status = "uploading"
        /\ \E r \in GenerationRequests(s) :
             "contextImages" \notin DOMAIN r.body /\ "controlnets" \notin DOMAIN r.body

\* The image handed to invocation u, where the list still holds it.
HasImage(u) == \E i \in DOMAIN guidanceImages : guidanceImages[i].file.ref = u

ImageOf(u) ==
    guidanceImages[CHOOSE i \in DOMAIN guidanceImages : guidanceImages[i].file.ref = u]

UploadFailed(u) == up[u].pc = "done" /\ up[u].message # Null

UploadSucceeded(u) == up[u].pc = "done" /\ up[u].message = Null

\* C18: for any interleaving of concurrent uploads, a failing upload sets only
\* its own image to error: every image has the status and id its own upload
\* gives it (uploading without id while that upload is in flight, ready with
\* the id of its ticket once it succeeded, error once it failed), whatever
\* the other uploads did.
C18_FailureIsolated ==
    \A u \in DOMAIN up :
        HasImage(u) =>
            /\ up[u].pc \in {"awaitTicket", "awaitPush"} =>
                 ImageOf(u).status = "uploading" /\ ImageOf(u).id = Null
            /\ UploadSucceeded(u) =>
                 ImageOf(u).status = "ready" /\ ImageOf(u).id = up[u].id
            /\ UploadFailed(u) =>
                 ImageOf(u).status = "error" /\ ImageOf(u).error = up[u].message

\* C19: every guidance image enters the list with status uploading and changes
\* status at most once, to ready or to error; nothing moves an image from
\* ready or error to another status.
C19_StatusChangesOnce ==
    \A u \in DOMAIN up :
        /\ Len(up[u].trail) \in {1, 2}
        /\ up[u].trail[1] = "uploading"
        /\ Len(up[u].trail) = 2 => up[u].trail[2] \in {"ready", "error"}
        /\ HasImage(u) => ImageOf(u).status = up[u].trail[Len(up[u].trail)]

\* What fetch did with the ticket request of invocation u: it resolved with a
\* ticket the handler can use (a 2xx JSON body with uploadInitImage and fields
\* that parse).
TicketGranted(u) ==
    LET o == up[u].ticketFetch
    IN  /\ o.kind = "response" /\ o.status = 200 /\ o.parses
        /\ "uploadInitImage" \in DOMAIN o.json
        /\ o.json.uploadInitImage.fields.parses

RequestsOf(u) == { r \in net : r.sub = UploadName(u) }

\* C20: for each asset the ticket request resolves before the push starts, the
\* push is issued only if the ticket request succeeded, each ticket is used
\* for at most one push, and an upload that failed issues nothing more: an
\* invocation makes at most one ticket request and at most one push.
C20_TicketThenPush ==
    /\ \A u \in DOMAIN up :
         LET ticketRequests == { r \in RequestsOf(u) : r.path = "/init-image" }
             pushRequests == RequestsOf(u) \ ticketRequests
         IN  /\ up[u].tickets <= 1 /\ up[u].pushes <= 1
             /\ Cardinality(RequestsOf(u)) <= 1
             /\ ticketRequests # {} =>
                  up[u].pushes = 0 /\ up[u].ticketFetch = NoFetch
             /\ up[u].pushes = 1 => up[u].tickets = 1 /\ TicketGranted(u)
             /\ \A r \in pushRequests :
                  /\ TicketGranted(u)
                  /\ r.path = up[u].ticketFetch.json.uploadInitImage.url
                  /\ r.n = 1
             /\ (up[u].ticketFetch # NoFetch /\ ~TicketGranted(u)) =>
                  up[u].pushes = 0 /\ up[u].pc = "done"
             /\ up[u].pc = "done" => RequestsOf(u) = {}
    /\ \A u, v \in DOMAIN up :
         (u # v /\ up[u].pushes > 0 /\ up[v].pushes > 0) => up[u].url # up[v].url

\* One upload failed at its push and ended; a second one, of the same file
\* name, is a new sequence whose push is in flight.
C20_Witness ==
    /\ Len(up) = 2
    /\ up[1].file = up[2].file
    /\ up[1].pc = "done" /\ up[1].message = PushNetworkError
    /\ up[1].tickets = 1 /\ up[1].pushes = 1
    /\ up[2].pc = "awaitPush" /\ up[2].tickets = 1 /\ up[2].pushes = 1
    /\ \E r \in RequestsOf(2) : r.path = up[2].url

(***************************************************************************)
(* The push seen from both ends: the storage service answers the push in   *)
(* flight with a status the handler never reads (fetch in no-cors mode     *)
(* resolves with an opaque response), for tickets of any fields.  Uploads  *)
(* start in different milliseconds.                                        *)
(***************************************************************************)
StorageStatuses == {204, 403}

\* The storage service answers the push of invocation u with HTTP status st.
StorageAnswers(u, st) ==
    /\ u \in DOMAIN up
    /\ up[u].pc = "awaitPush"
    /\ up[u].served = 0
    /\ up' = [up EXCEPT ![u].served = st]
    /\ UNCHANGED <<apiKey, modelName, selectedConfig, prompt, width, height, style,
                   contrast, alchemy, photoReal, guidanceImages, now, outVars, sub, net>>

\* Object.entries(fields) of the tickets the service may grant: no field, the
\* usual ones, and a field that is itself named file.
TicketFieldLists ==
    { <<>>,
      << <<"key", "uploads/k">>, <<"policy", "p">> >>,
      << <<"file", "decoy">>, <<"key", "uploads/k">> >> }

FormTicketBodies(u) ==
    { [uploadInitImage |-> [id |-> "asset-" \o ToString(u),
                            fields |-> [parses |-> TRUE, entries |-> f],
                            url |-> "https://s3/" \o ToString(u)]] : f \in TicketFieldLists }

FormTicketTable == [u \in 1..MaxUploads |-> FormTicketBodies(u)]

NextPush ==
    \/ StartUpload("cat.PNG", 1)
    \/ \E u \in 1..MaxUploads :
         \E o \in TransportFailures
                  \cup {Responded(200, "", TRUE, j) : j \in FormTicketTable[u]} :
            TicketResolve(u, o)
    \/ \E u \in 1..MaxUploads, st \in StorageStatuses : StorageAnswers(u, st)
    \/ \E u \in 1..MaxUploads, o \in PushOutcomes : PushResolve(u, o)

SpecPush == InitUpload /\ [][NextPush]_vars

ExtensionNames == {"cat.PNG", "dog.", "README", "x.tar.GZ"}

NextExtension ==
    \/ \E file \in ExtensionNames, dt \in {0, 1} : StartUpload(file, dt)
    \/ \E u \in 1..MaxUploads :
         \E o \in TransportFailures
                  \cup {Responded(200, "", TRUE, j) : j \in TicketResponses(u)} :
            TicketResolve(u, o)

SpecExtension == InitUpload /\ [][NextExtension]_vars

\* The pushes in flight of invocation u.
PushesOf(u) == { r \in RequestsOf(u) : r.path # "/init-image" }

\* C29: in the form of every push the ticket's fields come first, in the
\* ticket's order, and the file is the last entry, whatever fields the ticket
\* carries, one named file included.
C29_FileLast ==
    \A u \in DOMAIN up :
        \A r \in PushesOf(u) :
            LET entries == up[u].ticketFetch.json.uploadInitImage.fields.entries
            IN  /\ Len(r.body) = Len(entries) + 1
                /\ \A i \in DOMAIN entries : r.body[i] = entries[i]
                /\ r.body[Len(r.body)] = <<"file", "blob-" \o ToString(u)>>

\* A push in flight for a ticket whose first field is itself named file.
C29_Witness ==
    \E u \in DOMAIN up :
        \E r \in PushesOf(u) :
            /\ Len(r.body) = 3
            /\ r.body[1] = <<"file", "decoy">>
            /\ r.body[3][1] = "file" /\ r.body[3][2] # "decoy"

\* What the claim expects of each name: the extension the ticket request
\* carries, or "" where the upload is to fail before any request.
StatedExtension ==
    [name \in ExtensionNames |->
        CASE name = "cat.PNG"  -> "png"
          [] name = "x.tar.GZ" -> "gz"
          [] name = "dog."     -> ""
          [] name = "README"   -> ""]

TicketRequestsOf(u) == { r \in RequestsOf(u) : r.path = "/init-image" }

FailedBeforeTicket(u) ==
    /\ up[u].pc = "done" /\ up[u].tickets = 0 /\ TicketRequestsOf(u) = {}
    /\ up[u].message # Null
    /\ up[u].trail[Len(up[u].trail)] = "error"

\* C22: an upload whose name ends in "." or has no "." fails with status error
\* and no ticket request; otherwise the ticket request carries the extension
\* in lower case.
C22_AsStated ==
    \A u \in DOMAIN up :
        IF StatedExtension[up[u].file] = ""
        THEN FailedBeforeTicket(u)
        ELSE /\ up[u].tickets = 1
             /\ \A r \in TicketRequestsOf(u) :
                    r.body = [extension |-> StatedExtension[up[u].file]]

\* C22, the part the code keeps: a name ending in "." fails before any ticket
\* request, and a name with a "." and a last segment sends that segment in
\* lower case.
C22_DottedNames ==
    \A u \in DOMAIN up :
        up[u].file # "README" =>
            IF StatedExtension[up[u].file] = ""
            THEN FailedBeforeTicket(u)
            ELSE /\ up[u].tickets = 1
                 /\ \A r \in TicketRequestsOf(u) :
                        r.body = [extension |-> StatedExtension[up[u].file]]

C22_DottedWitness ==
    /\ Len(up) = 2
    /\ up[1].file = "dog." /\ FailedBeforeTicket(1)
    /\ up[2].file = "x.tar.GZ"
    /\ \E r \in TicketRequestsOf(2) : r.body.extension = "gz"

\* The calls of the request client made by invocation s, by what became of them.
CallsOf(s) == sub[s].posts + sub[s].polls

ResolvedCallsOf(s) ==
    sub[s].answers + (IF sub[s].posts = 1 /\ InFlight(s, "POST") = {} THEN 1 ELSE 0)

\* C23, counting: every call of the request client stands for one network
\* request, in flight or resolved, and none is issued again.
C23_OneRequestPerCall ==
    \A s \in Subs :
        /\ CallsOf(s) = ResolvedCallsOf(s) + Cardinality({ r \in net : r.sub = s })
        /\ \A r1, r2 \in net : (r1.sub = s /\ r2.sub = s) => r1 = r2

\* C23, one resolution: the request leaves the network and nothing replaces
\* it; a non-2xx response throws the status and the body text, a rejected
\* fetch throws its cause, and a JSON result is handed on only for a 2xx
\* response.
C23_CallResolves ==
    \A s \in Subs :
        \A r \in net \ net' :
            r.sub = s =>
                LET o == sub'[s].lastFetch
                    http == o.kind = "response" /\ (o.status < 200 \/ o.status > 299)
                IN  /\ net' = net \ {r}
                    /\ sub'[s].lastMethod = r.method
                    /\ o.kind = "reject" =>
                           /\ sub'[s].outcome = [kind |-> "error", value |-> o.text]
                           /\ error' = o.text
                    /\ http =>
                           /\ sub'[s].outcome =
                                  [kind |-> "error",
                                   value |-> "API request failed with status "
                                             \o ToString(o.status) \o ": " \o o.text]
                           /\ error' = sub'[s].outcome.value
                    /\ (o.kind = "reject" \/ http) =>
                           /\ sub'[s].pc = "done"
                           /\ debugResponse'.label = "Error"
                    /\ debugResponse'.label \in {"Initial Response", "Polling Response"} =>
                           /\ o.kind = "response" /\ o.status \in 200..299 /\ o.parses
                           /\ debugResponse'.json = o.json

\* C23: each call of the request client issues one network request and never
\* retries; a non-2xx response yields an error with the status and the body
\* text, a transport failure an error with the cause, and only a 2xx response
\* a JSON result.
C23_RequestClient == []C23_OneRequestPerCall /\ [][C23_CallResolves]_vars

\* The submission POST was answered 500 with a body, and the error carries both.
C23_Witness ==
    \E s \in Subs :
        /\ sub[s].lastMethod = "POST"
        /\ sub[s].lastFetch = [kind |-> "response", status |-> 500,
                               text |-> "quota exceeded", parses |-> FALSE,
                               json |-> NoBody]
        /\ sub[s].posts = 1 /\ sub[s].polls = 0 /\ net = {}
        /\ error = "API request failed with status 500: quota exceeded"

\* C27: one delay elapses between two consecutive status requests of a job,
\* none precedes the first status request, and a delay follows every answer
\* that is not final, the 30th included, so the timeout is raised only after
\* 30 delays.
C27_DelayBetweenPolls ==
    \A s \in Subs :
        /\ sub[s].pc \in {"awaitPoll", "delay"} => sub[s].delays = sub[s].polls - 1
        /\ sub[s].pc = "polling" =>
               /\ sub[s].delays = sub[s].polls
               /\ sub[s].delays = sub[s].answers
        /\ sub[s].polls = 0 => sub[s].delays = 0
        /\ sub[s].outcome.value = "Polling timed out." =>
               /\ sub[s].delays = 30 /\ sub[s].polls = 30 /\ sub[s].answers = 30
        /\ (sub[s].pc = "done" /\ sub[s].polls > 0
            /\ sub[s].outcome.value # "Polling timed out.") =>
               sub[s].delays = sub[s].polls - 1

\* The timer runs after the 30th PENDING answer, before the timeout is raised.
C27_Witness ==
    \E s \in Subs :
        /\ sub[s].pc = "delay" /\ sub[s].pendings = 30
        /\ sub[s].polls = 30 /\ sub[s].delays = 29
        /\ sub[s].outcome.kind = "none" /\ loading

(***************************************************************************)
(* Submissions to their end: every fetch settles and every timer fires.    *)
(* The form is submitted for a model with and without guidance validation, *)
(* with no image and with one the builder rejects for the former.          *)
(***************************************************************************)
PostAnswers == FetchFailures \cup {Responded(200, "", TRUE, j) : j \in InitialResponses}

PollAnswers == FetchFailures \cup {Responded(200, "", TRUE, j) : j \in StatusResponses}

InitTerminate ==
    /\ apiKey = "key-1"
    /\ modelName \in ModelChoices
    /\ selectedConfig = getModelConfig(modelName)
    /\ prompt = "x"
    /\ width = 1024
    /\ height = 1024
    /\ style = "None"
    /\ contrast = 10
    /\ alchemy = FALSE
    /\ photoReal = FALSE
    /\ guidanceImages \in
         { <<>>, <<GuidanceImage("3c.png", "img-c", "ready", "", "Mid", 100,
                                 "SUBJECT_AND_STYLE")>> }
    /\ loading = FALSE
    /\ status = "Idle. Enter your API Key and a prompt to begin."
    /\ error = Null
    /\ resultImageUrl = Null
    /\ debugRequest = NoBody
    /\ debugResponse = NoDebugResponse
    /\ sub = [s \in Subs |-> IdleSub]
    /\ net = {}
    /\ up = <<>>
    /\ now = 0

NextTerminate ==
    \/ \E s \in Subs : Submit(s)
    \/ \E s \in Subs, o \in PostAnswers : PostResolve(s, o)
    \/ \E s \in Subs : PollIssue(s)
    \/ \E s \in Subs, o \in PollAnswers : PollResolve(s, o)
    \/ \E s \in Subs : DelayElapse(s)

\* Every network call returns or fails, the timer fires, and the loop goes on.
FairTerminate ==
    \A s \in Subs :
        /\ WF_vars(\E o \in PostAnswers : PostResolve(s, o))
        /\ WF_vars(PollIssue(s))
        /\ WF_vars(\E o \in PollAnswers : PollResolve(s, o))
        /\ WF_vars(DelayElapse(s))

SpecTerminate == InitTerminate /\ [][NextTerminate]_vars /\ FairTerminate

InProgress(s) == sub[s].pc \in {"awaitPost", "polling", "awaitPoll", "delay"}

\* C30, safety: a submission makes at most one submission POST and 30 status
\* requests, loading is true exactly while it is in progress, and it has ended
\* with an outcome and loading false whenever it is done.
C30_LoadingWhileInProgress ==
    \A s \in Subs :
        /\ sub[s].posts <= 1 /\ sub[s].polls <= 30
        /\ loading <=> InProgress(s)
        /\ sub[s].pc = "done" => (~loading /\ sub[s].outcome.kind \in {"done", "error"})
        /\ sub[s].outcome.kind # "none" => sub[s].pc = "done"

\* C30, progress: a started submission ends.
C30_Ends == \A s \in Subs : InProgress(s) ~> (sub[s].pc = "done" /\ ~loading)

\* C30: provided every network call returns or fails, every started submission
\* terminates after at most one submission POST and 30 status requests, every
\* outcome resets loading to false, and loading is true exactly while a
\* submission is in progress.
C30_TerminatesAndResetsLoading == []C30_LoadingWhileInProgress /\ C30_Ends

\* A second submission has timed out after its 30 status requests.
C30_Witness ==
    \E s \in Subs :
        /\ sub[s].pc = "done" /\ ~loading
        /\ sub[s].run = 2 /\ sub[s].posts = 1 /\ sub[s].polls = 30
        /\ sub[s].delays = 30
        /\ sub[s].outcome = [kind |-> "error", value |-> "Polling timed out."]

\* A builder error has ended a submission without any request.
C30_BuilderErrorWitness ==
    \E s \in Subs :
        /\ sub[s].pc = "done" /\ ~loading /\ sub[s].posts = 0 /\ net = {}
        /\ sub[s].outcome.kind = "error"
        /\ sub[s].outcome.value # "API Key is required."

(***************************************************************************)
(* The controls of a guidance image (index.tsx 414-448): each is enabled   *)
(* once the image is ready and offers the values its select or slider      *)
(* lists.                                                                  *)
(***************************************************************************)
\* { ...img, ...updates }
Merge(img, updates) ==
    [k \in DOMAIN img |-> IF k \in DOMAIN updates THEN updates[k] ELSE img[k]]

\* GUIDANCE_STRENGTH_TYPES[newGuidanceType] || []
ValidStrengths(type) ==
    IF type \in DOMAIN GUIDANCE_STRENGTH_TYPES THEN GUIDANCE_STRENGTH_TYPES[type] ELSE <<>>

Includes(seq, x) == \E i \in DOMAIN seq : seq[i] = x

updateGuidanceImageKeepsStrength(tempId, updates) ==
    guidanceImages' =
        [i \in DOMAIN guidanceImages |->
            IF guidanceImages[i].tempId = tempId
            THEN Merge(guidanceImages[i], updates) ELSE guidanceImages[i]]

updateGuidanceImage(tempId, updates) ==
    LET resets == "guidanceType" \in DOMAIN updates /\ Truthy(updates.guidanceType)
        validStrengths == ValidStrengths(updates.guidanceType)
        newStrengthType ==
            IF Includes(validStrengths, "Mid") THEN "Mid"
            ELSE IF Len(validStrengths) > 0 THEN validStrengths[1] ELSE ""
        merged == IF resets THEN updates @@ ("strengthType" :> newStrengthType)
                  ELSE updates
    IN  guidanceImages' =
            [i \in DOMAIN guidanceImages |->
                IF guidanceImages[i].tempId = tempId
                THEN Merge(guidanceImages[i], merged) ELSE guidanceImages[i]]

\* guidanceConfig?.usesWeight ?? true
guidanceUsesWeight(img) ==
    IF Len(GuidanceConfig(img.guidanceType)) = 0 THEN TRUE
    ELSE GuidanceConfig(img.guidanceType)[1].usesWeight

ControlsEnabled(i) ==
    /\ i \in DOMAIN guidanceImages
    /\ guidanceImages[i].status = "ready"
    /\ Len(supportedContextGuidance) = 0

GuidanceUnchanged ==
    UNCHANGED <<apiKey, modelName, selectedConfig, prompt, width, height, style,
                contrast, alchemy, photoReal, up, now, outVars, sub, net>>

\* onChange of the guidance type select of image i
ChangeGuidanceType(i, type) ==
    /\ ControlsEnabled(i)
    /\ Includes(supportedGuidance, type)
    /\ type # guidanceImages[i].guidanceType
    /\ updateGuidanceImage(guidanceImages[i].tempId, [guidanceType |-> type])
    /\ GuidanceUnchanged

\* onChange of the strength type select of image i
ChangeStrengthType(i, strength) ==
    /\ ControlsEnabled(i)
    /\ ~guidanceUsesWeight(guidanceImages[i])
    /\ Includes(ValidStrengths(guidanceImages[i].guidanceType), strength)
    /\ strength # guidanceImages[i].strengthType
    /\ updateGuidanceImage(guidanceImages[i].tempId, [strengthType |-> strength])
    /\ GuidanceUnchanged

\* The positions of the weight slider (min 0, max 2, step 0.05), times 100.
SliderPositions == {0, 100, 200}

\* onChange of the weight slider of image i
ChangeWeight(i, weight) ==
    /\ ControlsEnabled(i)
    /\ guidanceUsesWeight(guidanceImages[i])
    /\ weight # guidanceImages[i].weight
    /\ updateGuidanceImage(guidanceImages[i].tempId, [weight |-> weight])
    /\ GuidanceUnchanged

\* The options tried: a strength every type lists, one only Style Reference
\* lists, and the two types whose lists differ.
StrengthNames == {"Mid", "High", "Ultra"}

GuidanceTypeNames == {"Style Reference", "Character Reference"}

\* A descriptor whose guidance uses a weight; the table ships none.
SliderGuidance == << GuidanceEntry("Style Reference", 67, 4, TRUE) >>

GuidanceDescriptors ==
    { getModelConfig("Leonardo Phoenix 1.0"),
      GuidanceModel("m-slider", TRUE, TRUE, SliderGuidance, "Dynamic", 10) }

InitGuidance ==
    /\ apiKey = "key-1"
    /\ modelName = "Leonardo Phoenix 1.0"
    /\ selectedConfig \in GuidanceDescriptors
    /\ prompt = "x"
    /\ width = 1024
    /\ height = 1024
    /\ style = "None"
    /\ contrast = 10
    /\ alchemy = FALSE
    /\ photoReal = FALSE
    /\ guidanceImages = <<>>
    /\ loading = FALSE
    /\ status = "Idle. Enter your API Key and a prompt to begin."
    /\ error = Null
    /\ resultImageUrl = Null
    /\ debugRequest = NoBody
    /\ debugResponse = NoDebugResponse
    /\ sub = [s \in Subs |-> IdleSub]
    /\ net = {}
    /\ up = <<>>
    /\ now = 0

\* handleFileInputChange hands the files of one selection to handleImageUpload
\* in one task: only an upload that follows the uploads of its tick before any
\* of them went on, and before any click took their images from the list, may
\* read the same Date.now().
SameTick ==
    /\ Len(up) > 0
    /\ \A v \in DOMAIN up :
          up[v].tempId = up[Len(up)].tempId =>
              (up[v].pc = "awaitTicket" /\ HasImage(v))

NextGuidance ==
    \/ \E dt \in {0, 1} :
         /\ dt = 0 => SameTick
         /\ StartUpload("cat.PNG", dt)
    \/ \E u \in 1..MaxUploads :
         \E j \in { t \in TicketTable[u] : "uploadInitImage" \in DOMAIN t } :
            /\ j.uploadInitImage.fields.parses /\ j.uploadInitImage.id # Null
            /\ TicketResolve(u, Responded(200, "", TRUE, j))
    \/ \E u \in 1..MaxUploads : PushResolve(u, OpaqueResponse)
    \/ \E i \in 1..MaxUploads, type \in GuidanceTypeNames : ChangeGuidanceType(i, type)
    \/ \E i \in 1..MaxUploads, strength \in StrengthNames : ChangeStrengthType(i, strength)
    \/ \E i \in 1..MaxUploads, weight \in SliderPositions : ChangeWeight(i, weight)
    \/ \E s \in Subs : Submit(s)

SpecGuidance == InitGuidance /\ [][NextGuidance]_vars

\* The strengths GUIDANCE_STRENGTH_TYPES (index.tsx 13-17) lists for a type.
LegalStrengths(type) ==
    IF type = "Style Reference" THEN {"Low", "Mid", "High", "Ultra", "Max"}
    ELSE IF type \in {"Character Reference", "Content Reference"}
         THEN {"Low", "Mid", "High"}
    ELSE {}

\* C28: after any sequence of uploads and of guidance type, strength and
\* weight changes, every image with a guidance type has a strength its type
\* lists and a weight in [0, 2], and every strengthType sent in controlnets
\* is one the guidance type of its image lists.
C28_LegalStrengthAndWeight ==
    /\ \A i \in DOMAIN guidanceImages :
         guidanceImages[i].guidanceType # "" =>
            /\ guidanceImages[i].strengthType \in LegalStrengths(guidanceImages[i].guidanceType)
            /\ guidanceImages[i].weight \in 0..200
    /\ \A s \in Subs :
         \A r \in GenerationRequests(s) :
            "controlnets" \in DOMAIN r.body =>
                LET sent == ReadyAtSubmit(s)
                IN  /\ Len(r.body.controlnets) = Len(sent)
                    /\ \A k \in DOMAIN sent :
                          "strengthType" \in DOMAIN r.body.controlnets[k] =>
                              r.body.controlnets[k].strengthType
                                  \in LegalStrengths(sent[k].guidanceType)

\* One image went to the strength only Style Reference lists and was then
\* made a Character Reference, the other was sent with that strength.
C28_Witness ==
    /\ Len(guidanceImages) = 2
    /\ guidanceImages[1].guidanceType = "Character Reference"
    /\ guidanceImages[1].strengthType = "High"
    /\ guidanceImages[2].strengthType = "Ultra"
    /\ \E s \in Subs : \E r \in GenerationRequests(s) :
          /\ "controlnets" \in DOMAIN r.body
          /\ Len(r.body.controlnets) = 2
          /\ r.body.controlnets[2].strengthType = "Ultra"

\* The slider was moved to both of its ends.
C28_SliderWitness ==
    /\ Len(guidanceImages) = 2
    /\ guidanceImages[1].weight = 200 /\ guidanceImages[2].weight = 0
    /\ guidanceImages[1].tempId # guidanceImages[2].tempId

(***************************************************************************)
(* The model select over every image model of the table, with uploads      *)
(* under the model selected.                                               *)
(***************************************************************************)
NextModels ==
    \/ \E i \in DOMAIN imageModels : SetModelName(imageModels[i])
    \/ StartUpload("cat.PNG", 1)
    \/ \E u \in 1..MaxUploads :
         \E j \in { t \in TicketTable[u] : "uploadInitImage" \in DOMAIN t } :
            /\ j.uploadInitImage.fields.parses /\ j.uploadInitImage.id # Null
            /\ TicketResolve(u, Responded(200, "", TRUE, j))
    \/ \E u \in 1..MaxUploads : PushResolve(u, OpaqueResponse)

SpecModels == InitUpload /\ [][NextModels]_vars

\* C26: every entry of the capability table declares at most one of guidance
\* and contextGuidance, so the model selected never exposes both.
C26_OneGuidanceFamily ==
    /\ \A n \in DOMAIN MODEL_CONFIG :
         ~(MODEL_CONFIG[n].supports.hasGuidance /\ MODEL_CONFIG[n].supports.hasContextGuidance)
    /\ ~(selectedConfig.supports.hasGuidance /\ selectedConfig.supports.hasContextGuidance)
    /\ \A i \in DOMAIN guidanceImages :
         guidanceImages[i].guidanceType = "" \/ guidanceImages[i].contextType = ""

\* After an upload under the context model the select went to a guidance
\* model, and the image uploaded there carries a guidance type only.
C26_Witness ==
    /\ modelName = "Lucid Origin"
    /\ selectedConfig.supports.hasGuidance
    /\ Len(guidanceImages) = 1
    /\ guidanceImages[1].status = "ready"
    /\ guidanceImages[1].guidanceType = "Style Reference"
    /\ guidanceImages[1].contextType = ""
    /\ Len(up) = 2 /\ up[1].pc = "done" /\ up[1].message = Null

(***************************************************************************)
(* The handlers called as functions, whatever the buttons allow: the form  *)
(* and the file input keep them from running without a key or while a      *)
(* submission is loading, the handlers' own code is what is modelled here. *)
(***************************************************************************)
InvokeSubmit(s) ==
    /\ sub[s].pc \in {"idle", "done"}
    /\ sub[s].run < MaxSubmissions
    /\ handleSubmit(s)
    /\ UNCHANGED appVars

InvokeUpload(file, dt) ==
    /\ Len(up) < MaxUploads
    /\ handleImageUpload(file, dt)
    /\ UNCHANGED <<apiKey, modelName, selectedConfig, prompt, width, height, style,
                   contrast, alchemy, photoReal, loading, error, resultImageUrl,
                   debugRequest, debugResponse, sub>>

\* No key was entered.
NextKeyless ==
    \/ \E s \in Subs : InvokeSubmit(s)
    \/ \E file \in ExtensionNames, dt \in {0, 1} : InvokeUpload(file, dt)

SpecKeyless == Init /\ [][NextKeyless]_vars

\* C25: with an empty credential constructing the client fails, no request is
\* issued, a submission ends with an error before any request, and an upload
\* ends with its image in status error.
C25_NoKeyNoRequest ==
    apiKey = "" =>
        /\ ~NewLeonardoAPI(apiKey).ok
        /\ NewLeonardoAPI(apiKey).message = "Leonardo API key is required."
        /\ net = {}
        /\ \A s \in Subs :
             sub[s].run > 0 =>
                /\ sub[s].pc = "done" /\ sub[s].posts = 0 /\ sub[s].polls = 0
                /\ sub[s].outcome = [kind |-> "error", value |-> "API Key is required."]
                /\ error = "API Key is required."
                /\ ~loading /\ resultImageUrl = Null
        /\ Len(guidanceImages) = Len(up)
        /\ \A u \in DOMAIN up :
             /\ up[u].pc = "done" /\ up[u].tickets = 0 /\ up[u].pushes = 0
             /\ up[u].trail = <<"uploading", "error">>
             /\ guidanceImages[u].status = "error"
             /\ guidanceImages[u].error = "API Key is required to upload images."
             /\ guidanceImages[u].id = Null

\* A submission and two uploads were tried without a key.
C25_Witness ==
    /\ apiKey = ""
    /\ \E s \in Subs : sub[s].run = 1 /\ sub[s].outcome.kind = "error"
    /\ Len(up) = 2
    /\ guidanceImages[2].status = "error"
    /\ guidanceImages[2].file.name = "cat.PNG"
    /\ status = "Image upload failed."

(***************************************************************************)
(* Two invocations of handleSubmit under way at once.  Each has its own    *)
(* generationId and attempts (locals of handleSubmit and pollForResult);   *)
(* loading, status, error, resultImageUrl and the debug panes are the      *)
(* component's state (index.tsx 55-60), written by both.                   *)
(***************************************************************************)
Subs2 == {"s1", "s2"}

\* The service gives each job its own identifier and its own image.
JobPostAnswers(s) ==
    { Rejected("Failed to fetch"),
      Responded(200, "", TRUE, [sdGenerationJob |-> [generationId |-> "gen-" \o s]]) }

JobPollAnswers(s) ==
    { Responded(500, "quota exceeded", FALSE, NoBody),
      Responded(200, "", TRUE, Generation("PENDING")),
      Responded(200, "", TRUE, Complete(<<Image("http://x/" \o s \o ".png")>>)) }

InitConcurrent ==
    /\ apiKey = "key-1"
    /\ modelName = imageModels[1]
    /\ selectedConfig = getModelConfig(imageModels[1])
    /\ prompt = "x"
    /\ width = 1024
    /\ height = 1024
    /\ style = "None"
    /\ contrast = 10
    /\ alchemy = FALSE
    /\ photoReal = FALSE
    /\ guidanceImages = <<>>
    /\ loading = FALSE
    /\ status = "Idle. Enter your API Key and a prompt to begin."
    /\ error = Null
    /\ resultImageUrl = Null
    /\ debugRequest = NoBody
    /\ debugResponse = NoDebugResponse
    /\ sub = [s \in Subs2 |-> IdleSub]
    /\ net = {}
    /\ up = <<>>
    /\ now = 0

NextConcurrent ==
    \/ \E s \in Subs2 : sub[s].run = 0 /\ InvokeSubmit(s)
    \/ \E s \in Subs2 : \E o \in JobPostAnswers(s) : PostResolve(s, o)
    \/ \E s \in Subs2 : PollIssue(s)
    \/ \E s \in Subs2 : \E o \in JobPollAnswers(s) : PollResolve(s, o)
    \/ \E s \in Subs2 : DelayElapse(s)

SpecConcurrent == InitConcurrent /\ [][NextConcurrent]_vars

\* What invocation s has to show for itself while it is under way.
ReportsOwnProgress(s) ==
    /\ sub[s].pc = "awaitPost" =>
           /\ status = "Sending generation request..."
           /\ loading /\ error = Null /\ resultImageUrl = Null
    /\ sub[s].pc \in {"awaitPoll", "delay"} =>
           /\ status = "Polling for result... (Attempt "
                          \o ToString(sub[s].delays + 1) \o ")"
           /\ loading /\ error = Null /\ resultImageUrl = Null

\* The job identifier and the attempt count of s come from its own requests.
OwnJobAndAttempts(s) ==
    /\ sub[s].pc \in {"polling", "awaitPoll", "delay"} =>
           /\ sub[s].generationId = "gen-" \o s
           /\ \A r \in InFlight(s, "GET") : r.path = "/generations/gen-" \o s
    /\ sub[s].attempts = sub[s].delays
    /\ sub[s].outcome.kind = "done" => sub[s].outcome.value = "http://x/" \o s \o ".png"

C24_OwnJobAndAttempts == \A s \in DOMAIN sub : OwnJobAndAttempts(s)

\* Both jobs are being polled, at different attempts.
C24_Witness ==
    /\ sub["s1"].pc = "awaitPoll" /\ sub["s2"].pc = "delay"
    /\ sub["s1"].attempts = 3 /\ sub["s2"].attempts = 1
    /\ sub["s1"].generationId = "gen-s1" /\ sub["s2"].generationId = "gen-s2"

\* C31, in a state: error and result url are not both set, a result url is
\* the url its submission's COMPLETE answer carried, and a failed submission
\* shows its error with the result url cleared.
C31_ErrorOrResult ==
    /\ ~(error # Null /\ resultImageUrl # Null)
    /\ resultImageUrl # Null =>
         \E s \in Subs :
            /\ sub[s].outcome = [kind |-> "done", value |-> resultImageUrl]
            /\ LastWas(s, "GET") /\ LastStatusIs(s, "COMPLETE")
            /\ LastFirstImageHasUrl(s) /\ LastFirstImage(s).url = resultImageUrl
    /\ \A s \in Subs :
         sub[s].outcome.kind = "error" =>
            (error = sub[s].outcome.value /\ resultImageUrl = Null)

\* C31, in a step: a submission that sends its request has cleared both.
C31_SubmissionClears ==
    \A s \in Subs :
        (sub[s].posts = 0 /\ sub'[s].posts = 1) =>
            (error' = Null /\ resultImageUrl' = Null)

\* C31: the error message and the result url are never both set; the url is
\* set only by a submission whose poll returned COMPLETE with a url, a new
\* submission clears both before its first request, and a failing submission
\* sets the error and leaves the url cleared.
C31_NeverBoth == []C31_ErrorOrResult /\ [][C31_SubmissionClears]_vars

\* A second submission was answered FAILED by its first poll.
C31_Witness ==
    \E s \in Subs :
        /\ sub[s].run = 2 /\ sub[s].outcome.kind = "error"
        /\ sub[s].posts = 1 /\ sub[s].polls = 1
        /\ error = "Generation failed." /\ resultImageUrl = Null

\* A status answer that arrived and says neither COMPLETE nor FAILED.
NonFinalAnswer(o) ==
    /\ o.kind = "response" /\ o.status \in 200..299 /\ o.parses
    /\ \/ "generations_by_pk" \notin DOMAIN o.json
       \/ "status" \notin DOMAIN o.json.generations_by_pk
       \/ o.json.generations_by_pk.status \notin {"COMPLETE", "FAILED"}

\* C32, in a step: such an answer ends nothing; the loop goes to its delay
\* with the submission still loading.
C32_AnswerGoesToDelay ==
    \A s \in Subs :
        (sub'[s].answers = sub[s].answers + 1 /\ NonFinalAnswer(sub'[s].lastFetch)) =>
            /\ sub'[s].pc = "delay"
            /\ sub'[s].outcome.kind = "none"
            /\ sub'[s].attempts = sub[s].attempts
            /\ loading' /\ error' = Null /\ resultImageUrl' = Null

\* C32, in a state: every such answer has consumed one attempt and one delay,
\* whatever it said, and a coordinator that is done after one has timed out
\* on the 30th.
C32_CountsAsAttempt ==
    \A s \in Subs :
        /\ sub[s].pc = "polling" =>
               (sub[s].attempts = sub[s].answers /\ sub[s].delays = sub[s].answers)
        /\ (sub[s].pc = "delay" /\ LastWas(s, "GET")) => NonFinalAnswer(sub[s].lastFetch)
        /\ (sub[s].pc = "done" /\ LastWas(s, "GET") /\ NonFinalAnswer(sub[s].lastFetch)) =>
               /\ sub[s].outcome = [kind |-> "error", value |-> "Polling timed out."]
               /\ sub[s].answers = 30 /\ sub[s].attempts = 30

\* C32: a status response that is neither COMPLETE nor FAILED, one without
\* generations_by_pk or with an unknown status included, is handled like
\* PENDING: it consumes one of the 30 attempts, is followed by the delay and
\* never ends the coordinator by itself.
C32_LikePending == []C32_CountsAsAttempt /\ [][C32_AnswerGoesToDelay]_vars

\* Thirty answers, none of them PENDING, ended in the timeout.
C32_Witness ==
    \E s \in Subs :
        /\ sub[s].outcome.value = "Polling timed out."
        /\ sub[s].answers = 30 /\ sub[s].pendings = 0
        /\ "generations_by_pk" \notin DOMAIN sub[s].lastFetch.json

(***************************************************************************)
(* The image list under uploads, removals and model changes.  The files of *)
(* one selection may read the same Date.now(); later uploads do not.       *)
(***************************************************************************)
NextList ==
    \/ \E dt \in {0, 1} : (dt = 0 => SameTick) /\ StartUpload("cat.PNG", dt)
    \/ \E u \in 1..MaxUploads :
         \E o \in TicketFailures
                  \cup {Responded(200, "", TRUE, j) : j \in TicketResponses(u)} :
            TicketResolve(u, o)
    \/ \E u \in 1..MaxUploads, o \in PushOutcomes : PushResolve(u, o)
    \/ \E i \in 1..MaxUploads : RemoveImage(i)
    \/ \E n \in ModelChoices : SetModelName(n)

SpecList == InitUpload /\ [][NextList]_vars

\* The upload of invocation u went on in this step.
UploadStep(u) == u \in DOMAIN up /\ up'[u].pc # up[u].pc

\* C33, in a step: an image that left the list is not in it afterwards, and
\* an upload that goes on or ends without its image leaves the list as it is.
C33_GoneStaysGone ==
    \A u \in DOMAIN up :
        ~HasImage(u) =>
            /\ \A i \in DOMAIN guidanceImages' : guidanceImages'[i].file.ref # u
            /\ UploadStep(u) => guidanceImages' = guidanceImages

\* C33, in a state: the list holds only images added under the model
\* selected, which carry that model's default type.
C33_OnlyImagesOfSelectedModel ==
    \A i \in DOMAIN guidanceImages :
        IF selectedConfig.supports.hasContextGuidance
        THEN /\ guidanceImages[i].guidanceType = ""
             /\ guidanceImages[i].contextType = "SUBJECT_AND_STYLE"
        ELSE /\ guidanceImages[i].guidanceType = "Style Reference"
             /\ guidanceImages[i].contextType = ""

\* C33: an image removed, or cleared by a model change, while its upload is
\* in flight never reappears: the upload's end leaves the list unchanged, and
\* after a model change the list holds only images added under the new model.
C33_NeverReappears == []C33_OnlyImagesOfSelectedModel /\ [][C33_GoneStaysGone]_vars

\* The first upload ended well after a model change had cleared its image; the
\* list holds the image added since, still uploading.
C33_Witness ==
    /\ Len(up) = 2
    /\ up[1].pc = "done" /\ up[1].message = Null /\ ~HasImage(1)
    /\ modelName = "Leonardo Phoenix 1.0"
    /\ Len(guidanceImages) = 1
    /\ guidanceImages[1].file.ref = 2 /\ guidanceImages[1].status = "uploading"

\* The first upload ended after its image had been removed by its button.
C33_RemovedWitness ==
    /\ Len(up) = 2 /\ modelName = "FLUX.1 Kontext"
    /\ up[1].pc = "done" /\ ~HasImage(1) /\ HasImage(2)

(***************************************************************************)
(* The guidance types of the list under every image model of the table:    *)
(* model changes, uploads, removals and changes of the guidance type.      *)
(***************************************************************************)
\* The guidance types some image model of the table declares.
TableGuidanceTypes ==
    UNION { { MODEL_CONFIG[imageModels[i]].supports.guidance[k].type :
                 k \in DOMAIN MODEL_CONFIG[imageModels[i]].supports.guidance } :
            i \in DOMAIN imageModels }

NextTypes ==
    \/ \E i \in DOMAIN imageModels : SetModelName(imageModels[i])
    \/ \E dt \in {0, 1} : (dt = 0 => SameTick) /\ StartUpload("cat.PNG", dt)
    \/ \E u \in 1..MaxUploads :
         \E j \in { t \in TicketTable[u] : "uploadInitImage" \in DOMAIN t } :
            /\ j.uploadInitImage.fields.parses /\ j.uploadInitImage.id # Null
            /\ TicketResolve(u, Responded(200, "", TRUE, j))
    \/ \E u \in 1..MaxUploads : PushResolve(u, OpaqueResponse)
    \/ \E i \in 1..MaxUploads : RemoveImage(i)
    \/ \E i \in 1..MaxUploads, type \in TableGuidanceTypes : ChangeGuidanceType(i, type)

SpecTypes == InitUpload /\ [][NextTypes]_vars

\* The type of the image is one the model selected can build a request from.
DeclaredType(img) ==
    \/ Len(GuidanceConfig(img.guidanceType)) > 0
    \/ /\ selectedConfig.supports.hasContextGuidance
       /\ Includes(supportedContextGuidance, img.contextType)

\* C34: after any model changes, uploads, removals and guidance-type changes
\* over the shipped table, every image of the list has a guidance type the
\* selected model declares, or the model declares contextGuidance and the
\* image's context type is in its list; the builder, run on the state, does
\* not throw its invalid-guidance-type error.
C34_TypesDeclared ==
    /\ \A i \in DOMAIN guidanceImages : DeclaredType(guidanceImages[i])
    /\ BuildParams.ok

\* After the context model's upload the select went to Phoenix 1.0; the image
\* uploaded there was switched to Character Reference, and the builder makes
\* a controlnets entry of it.
C34_Witness ==
    /\ modelName = "Leonardo Phoenix 1.0"
    /\ Len(up) = 2 /\ ~HasImage(1) /\ up[1].pc = "done"
    /\ Len(guidanceImages) = 1
    /\ guidanceImages[1].status = "ready"
    /\ guidanceImages[1].guidanceType = "Character Reference"
    /\ BuildParams.ok /\ "controlnets" \in DOMAIN BuildParams.value

\* C35: the temporary ids of the images in the list are pairwise distinct,
\* whatever the timing of the uploads and the names of the files, two files of
\* one name started in the same millisecond included.
C35_DistinctTempIds ==
    \A i, j \in DOMAIN guidanceImages :
        i # j => guidanceImages[i].tempId # guidanceImages[j].tempId

\* The ticket of upload u came without an id.
TicketWithoutId(u) ==
    /\ up[u].ticketFetch.kind = "response"
    /\ "uploadInitImage" \in DOMAIN up[u].ticketFetch.json
    /\ up[u].ticketFetch.json.uploadInitImage.id = Null

\* C36: a ready image has a non-empty asset id, the id of the ticket issued
\* for its own upload, and an image uploading or in error has none; every
\* contextImages and controlnets entry carries a non-empty asset id; an
\* upload whose ticket came without an id ends in error after the push.
C36_ReadyHasOwnAssetId ==
    /\ \A i \in DOMAIN guidanceImages :
          LET img == guidanceImages[i]
          IN  IF img.status = "ready"
              THEN Truthy(img.id) /\ img.id = up[img.file.ref].id
              ELSE img.id = Null
    /\ \A i \in DOMAIN ReadyImages : Truthy(ReadyImages[i].id)
    /\ \A u \in DOMAIN up :
          (TicketWithoutId(u) /\ up[u].pc = "done" /\ up[u].ticketFetch.json.uploadInitImage.fields.parses)
          => /\ up[u].pushes = 1
             /\ up[u].message \in {MissingAssetId, PushNetworkError}
             /\ up[u].pushFetch.kind = "response" => up[u].message = MissingAssetId

\* C37: the builder emits one controlnets entry for every ready image, in the
\* order of the list and with the preprocessor of the image's type, and drops
\* none: the number of entries of a type is not held to the type's maxInputs.
C37_OneEntryPerReadyImage ==
    \A s \in Subs : \A r \in GenerationRequests(s) :
        LET ready == ReadyAtSubmit(s)
        IN  IF Len(ready) = 0
            THEN "controlnets" \notin DOMAIN r.body
            ELSE /\ "controlnets" \in DOMAIN r.body
                 /\ Len(r.body.controlnets) = Len(ready)
                 /\ \A i \in DOMAIN ready :
                       /\ r.body.controlnets[i].initImageId = ready[i].id
                       /\ r.body.controlnets[i].preprocessorId =
                             DeclaredEntry(ready[i].guidanceType).preprocessorId

\* A request in flight carries two Character Reference entries under Phoenix
\* 1.0, whose table gives that type maxInputs 1.
C37_Witness ==
    /\ selectedConfig = getModelConfig("Leonardo Phoenix 1.0")
    /\ DeclaredEntry("Character Reference").maxInputs = 1
    /\ \E s \in Subs : \E r \in GenerationRequests(s) :
          /\ "controlnets" \in DOMAIN r.body
          /\ Len(r.body.controlnets) = 2
          /\ \A i \in 1..2 :
                r.body.controlnets[i].preprocessorId =
                    DeclaredEntry("Character Reference").preprocessorId
          /\ r.body.controlnets[1].initImageId # r.body.controlnets[2].initImageId

(***************************************************************************)
(* The alchemy and photoReal checkboxes.  The alchemy checkbox is rendered *)
(* when the descriptor supports alchemy, the photoReal checkbox when the   *)
(* alchemy toggle is on as well; the effect on [alchemy] runs before the   *)
(* next event is handled.                                                  *)
(***************************************************************************)
ToggleUnchanged ==
    UNCHANGED <<apiKey, modelName, selectedConfig, prompt, width, height, style,
                contrast, guidanceImages, up, now, outVars, sub, net>>

SetAlchemyWithoutEffect(checked) ==
    /\ selectedConfig.supports.alchemy
    /\ checked # alchemy
    /\ alchemy' = checked
    /\ photoReal' = photoReal
    /\ ToggleUnchanged

\* onChange of the alchemy checkbox, and the effect if (!alchemy) setPhotoReal(false)
SetAlchemy(checked) ==
    /\ selectedConfig.supports.alchemy
    /\ checked # alchemy
    /\ alchemy' = checked
    /\ photoReal' = IF ~checked THEN FALSE ELSE photoReal
    /\ ToggleUnchanged

\* onChange of the photoReal checkbox
SetPhotoReal(checked) ==
    /\ selectedConfig.supports.alchemy /\ alchemy
    /\ checked # photoReal
    /\ photoReal' = checked
    /\ alchemy' = alchemy
    /\ ToggleUnchanged

NextToggles ==
    \/ \E i \in DOMAIN imageModels : SetModelName(imageModels[i])
    \/ \E checked \in BOOLEAN : SetAlchemy(checked)
    \/ \E checked \in BOOLEAN : SetPhotoReal(checked)
    \/ \E s \in Subs : Submit(s)

SpecToggles == InitUpload /\ [][NextToggles]_vars

\* C38, in a state: photoReal is on only if alchemy is on, and alchemy is on
\* only if the selected model declares alchemy support.
C38_TogglesConsistent ==
    /\ photoReal => alchemy
    /\ alchemy => selectedConfig.supports.alchemy

\* C38, in a step: switching alchemy off, or selecting a model without
\* alchemy support, leaves photoReal off.
C38_ForcedOff ==
    ((alchemy /\ ~alchemy') \/ (modelName' # modelName /\ ~selectedConfig'.supports.alchemy))
    => ~photoReal'

\* C38: once the effects have run after any model changes and toggles,
\* photoReal is on only if alchemy is on and alchemy only if the selected
\* model supports it; switching alchemy off or selecting a model without
\* alchemy support forces photoReal off.
C38_PhotoRealNeedsAlchemy == []C38_TogglesConsistent /\ [][C38_ForcedOff]_vars

\* The request in flight was built with photoReal on; since then the alchemy
\* checkbox of the same model was switched off, and photoReal is off.
C38_Witness ==
    /\ modelName = "Leonardo Phoenix 1.0"
    /\ ~alchemy /\ ~photoReal
    /\ \E s \in Subs : \E r \in GenerationRequests(s) :
          /\ r.body.modelId = selectedConfig.id
          /\ "photoReal" \in DOMAIN r.body /\ r.body.photoReal

====
